---- MODULE Spec2Model ----
(***************************************************************************)
(* Model of the slide pipeline of PPTX-AI: the T5 content refiner          *)
(* (modules/bert_refiner.py), its fallback stub (streamlit_app.py), the    *)
(* layout strategy selection, the responsive font manager and the chart    *)
(* path of the enhanced generator                                          *)
(* (modules/enhanced_powerpoint_generator.py), the content analysis        *)
(* (modules/advanced_features.py) and the chart extraction                 *)
(* (modules/quickchart_mermaid.py).                                        *)
(*                                                                         *)
(* Quality scores are counted in tenths (10 stands for 1.0), slide         *)
(* dimensions in tenths of an inch.                                        *)
(***************************************************************************)
EXTENDS Integers, Sequences, FiniteSets, TLC

VARIABLES data, refiner, memo, calls, last, deck0, batch_args, prs,
          quality, font_manager, font_out, signal, limiter, now, rate_log

\* the state of the refiner and of the slide layout
core == <<data, refiner, memo, calls, last, deck0, batch_args, prs>>

\* the state of the rate limiter, the clock and the calls of is_allowed
rate == <<limiter, now, rate_log>>

\* the state of the text analysis, of the font manager, of the charts and
\* of the rate limiter
aux == <<quality, font_manager, font_out, signal, limiter, now, rate_log>>

vars == <<data, refiner, memo, calls, last, deck0, batch_args, prs,
          quality, font_manager, font_out, signal, limiter, now, rate_log>>

(***************************************************************************)
(* Bounds of the model                                                     *)
(***************************************************************************)
MaxSlides == 2
MaxBullets == 1
MaxCalls == 2
MaxBatch == 2
MaxImages == 1
MaxPrsSlides == 2
MaxWordCount == 41
MaxChartBullets == 2

(***************************************************************************)
(* Program constants                                                       *)
(***************************************************************************)
ScoreBase == 10
SummarizePenalty == 3
ClarifyPenalty == 2
QualityFloor == 1
StubQuality == 8
MaxWords == 40
LongWordLen == 12

(***************************************************************************)
(* Generic helpers: Python dict access, max                                *)
(***************************************************************************)
Has(d, k) == k \in DOMAIN d

Get(d, k, default) == IF k \in DOMAIN d THEN d[k] ELSE default

Put(d, k, v) == [x \in (DOMAIN d) \cup {k} |-> IF x = k THEN v ELSE d[x]]

Max(a, b) == IF a >= b THEN a ELSE b

(***************************************************************************)
(* Texts: a text is the sequence of its tokens, a word being given by its  *)
(* number of characters and a run of whitespace by WS                      *)
(***************************************************************************)
WS == 0

Words(n, len) == [i \in 1..(IF n = 0 THEN 0 ELSE 2 * n - 1) |->
                    IF i % 2 = 1 THEN len ELSE WS]

Pad(text) == <<WS>> \o text \o <<WS>>

T_short == Words(2, 3)
T_clar == <<13, WS, 2>>
T_long == Words(41, 2)

\* str.split(): the words of the text, in order
split(text) == SelectSeq(text, LAMBDA t : t # WS)

\* str.strip(): the text without its leading and trailing whitespace
RECURSIVE lstrip(_)
lstrip(text) ==
    IF text # <<>> /\ Head(text) = WS THEN lstrip(Tail(text)) ELSE text

RECURSIVE rstrip(_)
rstrip(text) ==
    IF text # <<>> /\ text[Len(text)] = WS
    THEN rstrip(SubSeq(text, 1, Len(text) - 1))
    ELSE text

strip(text) == rstrip(lstrip(text))

(***************************************************************************)
(* BertContentRefiner._analyze_text_quality                                *)
(***************************************************************************)
analyze_text_quality_clarify_first(text) ==
    LET words == split(text)
        long_words == SelectSeq(words, LAMBDA w : w > LongWordLen)
    IN  IF 100 * Len(long_words) > 15 * (Len(words) + 1)
        THEN [score |-> ScoreBase - ClarifyPenalty, action |-> "clarify",
              reason |-> "complex words"]
        ELSE IF Len(words) > MaxWords
        THEN [score |-> ScoreBase - SummarizePenalty, action |-> "summarize",
              reason |-> "too long"]
        ELSE [score |-> ScoreBase, action |-> "none", reason |-> ""]

analyze_text_quality(text) ==
    LET words == split(text)
        long_words == SelectSeq(words, LAMBDA w : w > LongWordLen)
    IN  IF Len(words) > MaxWords
        THEN [score |-> ScoreBase - SummarizePenalty, action |-> "summarize",
              reason |-> "too long"]
        \* len(long_words) / len(words + [1e-5]) > 0.15
        ELSE IF 100 * Len(long_words) > 15 * (Len(words) + 1)
        THEN [score |-> ScoreBase - ClarifyPenalty, action |-> "clarify",
              reason |-> "complex words"]
        ELSE [score |-> ScoreBase, action |-> "none", reason |-> ""]

(***************************************************************************)
(* BertContentRefiner.refine_content_batch                                 *)
(***************************************************************************)
prefixes ==
    [summarize |-> "summarize: ", clarify |-> "make it clear: ",
     grammar |-> "fix grammar: ", none |-> ""]

Min(a, b) == IF a <= b THEN a ELSE b

\* inputs = [prefixes[action] + text for text, action in zip(...) if action != 'none']
RECURSIVE batch_inputs_from(_, _, _)
batch_inputs_from(texts, actions, i) ==
    IF i > Min(Len(texts), Len(actions)) THEN <<>>
    ELSE IF actions[i] # "none"
         THEN <<[prefix |-> prefixes[actions[i]], text |-> texts[i]]>>
              \o batch_inputs_from(texts, actions, i + 1)
         ELSE batch_inputs_from(texts, actions, i + 1)

batch_inputs(texts, actions) == batch_inputs_from(texts, actions, 1)

\* the calls of model.generate made by one refine_content_batch, each with
\* the batch it submits
generate_batches_percall(available, texts, actions) ==
    IF ~available \/ texts = <<>> THEN <<>>
    ELSE [k \in 1..Len(batch_inputs(texts, actions)) |->
            <<batch_inputs(texts, actions)[k]>>]

generate_batches(available, texts, actions) ==
    IF ~available \/ texts = <<>> THEN <<>>
    ELSE IF batch_inputs(texts, actions) = <<>> THEN <<>>
    ELSE <<batch_inputs(texts, actions)>>

\* the mapping of the decoded outputs back to the positions of the batch
RECURSIVE map_back_stuck(_, _, _, _, _)
map_back_stuck(texts, actions, refined_texts, i, refined_idx) ==
    IF i > Len(actions) THEN <<>>
    ELSE IF actions[i] # "none"
         THEN <<refined_texts[refined_idx]>>
              \o map_back_stuck(texts, actions, refined_texts, i + 1, refined_idx)
         ELSE <<texts[i]>>
              \o map_back_stuck(texts, actions, refined_texts, i + 1, refined_idx)

RECURSIVE map_back(_, _, _, _, _)
map_back(texts, actions, refined_texts, i, refined_idx) ==
    IF i > Len(actions) THEN <<>>
    ELSE IF actions[i] # "none"
         THEN <<refined_texts[refined_idx]>>
              \o map_back(texts, actions, refined_texts, i + 1, refined_idx + 1)
         ELSE <<texts[i]>>
              \o map_back(texts, actions, refined_texts, i + 1, refined_idx)

\* refined_texts: what tokenizer/generate/batch_decode return for the batch
refine_content_batch(available, texts, actions, refined_texts) ==
    IF ~available \/ texts = <<>> THEN texts
    ELSE IF batch_inputs(texts, actions) = <<>> THEN texts
    ELSE map_back(texts, actions, refined_texts, 1, 1)

(***************************************************************************)
(* The generative collaborator (tokenizer, model.generate, batch_decode):  *)
(* a deterministic function of its input, unknown in advance.  memo holds  *)
(* the part of the function observed so far.                               *)
(***************************************************************************)
GenOut == {T_short, T_clar, Pad(T_clar), T_long}

InputSet(inputs) == {inputs[k] : k \in 1..Len(inputs)}

Decoded(table, inputs) == [k \in 1..Len(inputs) |-> table[inputs[k]]]

Extend(table, f) ==
    [x \in (DOMAIN table) \cup (DOMAIN f) |->
        IF x \in DOMAIN table THEN table[x] ELSE f[x]]

(***************************************************************************)
(* BertContentRefiner.refine_content                                       *)
(***************************************************************************)
\* Step 1: the fragments of one slide, body text first, then its bullets
slide_fragments(slide, i) ==
    LET content == Get(slide, "content", <<>>)
        bullets == Get(slide, "bullet_points", <<>>)
        body == IF content # <<>>
                THEN <<[slide_index |-> i, field |-> "content",
                        bullet_index |-> 0,
                        analysis |-> analyze_text_quality(content),
                        text |-> content]>>
                ELSE <<>>
    IN  body \o [j \in 1..Len(bullets) |->
                    [slide_index |-> i, field |-> "bullet_points",
                     bullet_index |-> j,
                     analysis |-> analyze_text_quality(bullets[j]),
                     text |-> bullets[j]]]

RECURSIVE collect_from(_, _)
collect_from(slides, i) ==
    IF i > Len(slides) THEN <<>>
    ELSE slide_fragments(slides[i], i) \o collect_from(slides, i + 1)

original_map(slides) == collect_from(slides, 1)

texts_to_process(omap) == [k \in 1..Len(omap) |-> omap[k].text]

actions_of(omap) == [k \in 1..Len(omap) |-> omap[k].analysis.action]

\* Step 3, per fragment: the defaults of the three annotations
touch(slide) ==
    Put(Put(Put(slide, "bert_refined", Get(slide, "bert_refined", FALSE)),
            "quality_score", Get(slide, "quality_score", ScoreBase)),
        "bert_suggestions", Get(slide, "bert_suggestions", <<>>))

changed(original_text, refined_text, analysis) ==
    strip(original_text) # strip(refined_text) /\ analysis.action # "none"

mark_refined(slide, reason) ==
    Put(Put(slide, "bert_refined", TRUE), "bert_suggestions",
        Append(slide["bert_suggestions"], reason))

replace_content(slide, original_text, refined_text) ==
    Put(Put(slide, "original_content", original_text),
        "content", refined_text)

shadow_bullets(slide) ==
    IF Has(slide, "original_bullet_points") THEN slide
    ELSE Put(slide, "original_bullet_points", slide["bullet_points"])

replace_bullet(slide, bullet_index, refined_text) ==
    Put(slide, "bullet_points",
        [slide["bullet_points"] EXCEPT ![bullet_index] = refined_text])

apply_change(slide, info, original_text, refined_text) ==
    IF info.field = "content"
    THEN replace_content(mark_refined(slide, info.analysis.reason),
                         original_text, refined_text)
    ELSE replace_bullet(
            shadow_bullets(mark_refined(slide, info.analysis.reason)),
            info.bullet_index, refined_text)

\* slides[slide_idx]['quality_score'] -= (1.0 - analysis['score'])
discount(slide, analysis) ==
    Put(slide, "quality_score",
        slide["quality_score"] - (ScoreBase - analysis.score))

update_slide_discount_if_changed(slide, info, original_text, refined_text) ==
    IF changed(original_text, refined_text, info.analysis)
    THEN discount(apply_change(touch(slide), info, original_text,
                               refined_text), info.analysis)
    ELSE touch(slide)

update_slide(slide, info, original_text, refined_text) ==
    discount(IF changed(original_text, refined_text, info.analysis)
             THEN apply_change(touch(slide), info, original_text,
                               refined_text)
             ELSE touch(slide),
             info.analysis)

RECURSIVE apply_fragments(_, _, _, _, _)
apply_fragments(slides, omap, texts, refined_texts, i) ==
    IF i > Len(omap) THEN slides
    ELSE apply_fragments(
            [slides EXCEPT ![omap[i].slide_index] =
                update_slide(slides[omap[i].slide_index], omap[i],
                             texts[i], refined_texts[i])],
            omap, texts, refined_texts, i + 1)

improved_slides(omap, texts, refined_texts, field) ==
    {omap[k].slide_index :
        k \in {n \in 1..Len(omap) :
                 /\ omap[n].field = field
                 /\ changed(texts[n], refined_texts[n], omap[n].analysis)}}

\* slide['quality_score'] = max(0.1, slide.get('quality_score', 1.0))
clamp_quality_unclamped(slide) ==
    Put(slide, "quality_score", Get(slide, "quality_score", ScoreBase))

clamp_quality(slide) ==
    Put(slide, "quality_score",
        Max(QualityFloor, Get(slide, "quality_score", ScoreBase)))

RECURSIVE total_quality_score(_, _)
total_quality_score(slides, i) ==
    IF i > Len(slides) THEN 0
    ELSE slides[i]["quality_score"] + total_quality_score(slides, i + 1)

\* total_quality_score / len(slides), kept as an exact fraction of tenths
average_quality_off_by_one(total, n) == [num |-> total, den |-> n + 1]

average_quality(total, n) == [num |-> total, den |-> n]

refinement_stats(final, omap, texts, refined_texts, total) ==
    [total_slides |-> Len(final),
     improved_content |->
        Cardinality(improved_slides(omap, texts, refined_texts, "content")),
     improved_bullets |->
        Cardinality(improved_slides(omap, texts, refined_texts,
                                    "bullet_points")),
     total_quality_score |-> total,
     method_used |-> "t5-small",
     average_quality |-> average_quality(total, Len(final))]

clamp_all(slides) == [i \in 1..Len(slides) |-> clamp_quality(slides[i])]

\* Step 3, end: clamp, totals, stats; the frame keeps the call's locals
refine_finish(d, omap, texts, actions, decoded, refined_texts, final) ==
    [data |-> Put(Put(d, "slides", final), "bert_refinement_stats",
                  refinement_stats(final, omap, texts, refined_texts,
                                   total_quality_score(final, 1))),
     omap |-> omap, texts |-> texts, actions |-> actions,
     decoded |-> decoded, refined |-> refined_texts,
     batches |-> generate_batches(TRUE, texts, actions)]

\* Step 3: apply every fragment
refine_update(d, slides, omap, texts, actions, decoded, refined_texts) ==
    refine_finish(d, omap, texts, actions, decoded, refined_texts,
        clamp_all(apply_fragments(slides, omap, texts, refined_texts, 1)))

\* Step 2: the batch rewrite
refine_rewrite(d, slides, omap, texts, actions, decoded) ==
    refine_update(d, slides, omap, texts, actions, decoded,
        refine_content_batch(TRUE, texts, actions, decoded))

refine_collected(d, slides, omap, texts, actions, table) ==
    refine_rewrite(d, slides, omap, texts, actions,
        IF generate_batches(TRUE, texts, actions) = <<>> THEN <<>>
        ELSE Decoded(table, batch_inputs(texts, actions)))

refine_steps(d, slides, omap, table) ==
    refine_collected(d, slides, omap, texts_to_process(omap),
                     actions_of(omap), table)

not_refined(d) ==
    [data |-> d, omap |-> <<>>, texts |-> <<>>, actions |-> <<>>,
     decoded |-> <<>>, refined |-> <<>>, batches |-> <<>>]

\* table: the collaborator's function, defined on every submitted input.
\* The result is the frame of the call: the returned data and its locals.
refine_content(d, available, table) ==
    IF ~available THEN not_refined(d)
    ELSE IF Get(d, "slides", <<>>) = <<>> THEN not_refined(d)
    ELSE refine_steps(d, d["slides"], original_map(d["slides"]), table)

\* the inputs refine_content submits to the collaborator
submitted_inputs(d, available) ==
    IF ~available \/ Get(d, "slides", <<>>) = <<>> THEN {}
    ELSE LET batches ==
                generate_batches(TRUE,
                    texts_to_process(original_map(d["slides"])),
                    actions_of(original_map(d["slides"])))
         IN  UNION {InputSet(batches[k]) : k \in 1..Len(batches)}

(***************************************************************************)
(* The fallback stub BertContentRefiner of streamlit_app.py                *)
(***************************************************************************)
stub_refinement_stats(slides) ==
    [total_slides |-> Len(slides), improved_content |-> 0,
     improved_bullets |-> 0, improved_speaking |-> 0,
     average_quality |-> [num |-> StubQuality, den |-> 1],
     method_used |-> "rule-based"]

stub_refine_content(d) ==
    LET slides == Get(d, "slides", <<>>)
        stamped == [i \in 1..Len(slides) |->
                       Put(Put(slides[i], "quality_score", StubQuality),
                           "bert_refined", FALSE)]
    IN  Put(IF Has(d, "slides") THEN Put(d, "slides", stamped) ELSE d,
            "bert_refinement_stats", stub_refinement_stats(slides))

(***************************************************************************)
(* Decks                                                                   *)
(***************************************************************************)
ContentChoices == {T_long}
BulletChoices == {T_short, T_clar}

BulletLists ==
    UNION {[1..n -> BulletChoices] : n \in 0..MaxBullets}

\* slides in the shape the refiner reads: content and bullet_points
RefinerSlides ==
    {[slide_title |-> "t", bullet_points |-> b] : b \in BulletLists}
    \cup {[slide_title |-> "t", content |-> c, bullet_points |-> b] :
            c \in ContentChoices, b \in BulletLists}

\* slides in the shape of the outline: slide_content and detailed_content
OutlineSlides ==
    {[slide_title |-> "t", slide_content |-> <<T_clar>>,
      detailed_content |-> T_long]}

SlideInputs == RefinerSlides \cup OutlineSlides

Decks ==
    {[presentation_title |-> "p", slides |-> s] :
        s \in UNION {[1..n -> SlideInputs] : n \in 0..MaxSlides}}

Refiners ==
    {[kind |-> "t5", available |-> TRUE],
     [kind |-> "t5", available |-> FALSE],
     [kind |-> "stub", available |-> FALSE]}

NoCall ==
    [op |-> "none", pre |-> <<>>, omap |-> <<>>, texts |-> <<>>,
     actions |-> <<>>, decoded |-> <<>>, refined |-> <<>>, batches |-> <<>>]

NoBatch == [texts |-> <<>>, actions |-> <<>>]

(***************************************************************************)
(* Texts read character by character.  A text is a sequence of characters; *)
(* an ASCII character is written as itself and a Vietnamese letter by its  *)
(* Telex spelling ("uw" for u-horn, "ows" for o-horn-acute, "dd" for       *)
(* d-stroke), in capitals for the capital letter.                          *)
(***************************************************************************)
Digits == <<"0", "1", "2", "3", "4", "5", "6", "7", "8", "9">>

LowerLetters ==
    <<"a", "b", "c", "d", "e", "f", "g", "h", "i", "j", "k", "l", "m", "n",
      "o", "p", "q", "r", "s", "t", "u", "v", "w", "x", "y", "z",
      "as", "af", "aa", "aas", "aaf", "aj", "aw", "dd", "ee", "ees", "eer",
      "eej", "if", "oos", "oor", "ow", "ows", "owf", "owr", "uw", "uwx",
      "ys", "yr", "uws">>

UpperLetters ==
    <<"A", "B", "C", "D", "E", "F", "G", "H", "I", "J", "K", "L", "M", "N",
      "O", "P", "Q", "R", "S", "T", "U", "V", "W", "X", "Y", "Z",
      "AS", "AF", "AA", "AAS", "AAF", "AJ", "AW", "DD", "EE", "EES", "EER",
      "EEJ", "IF", "OOS", "OOR", "OW", "OWS", "OWF", "OWR", "UW", "UWX",
      "YS", "YR", "UWS">>

Range(seq) == {seq[i] : i \in 1..Len(seq)}

IndexOf(seq, c) == CHOOSE i \in 1..Len(seq) : seq[i] = c

\* \d
DigitClass == Range(Digits)

\* \s
SpaceClass == {" ", "\n", "\t"}

\* str.lower() and str.upper()
lower(text) ==
    [i \in 1..Len(text) |->
        IF text[i] \in Range(UpperLetters)
        THEN LowerLetters[IndexOf(UpperLetters, text[i])] ELSE text[i]]

upper(text) ==
    [i \in 1..Len(text) |->
        IF text[i] \in Range(LowerLetters)
        THEN UpperLetters[IndexOf(LowerLetters, text[i])] ELSE text[i]]

\* the character at position i, "" outside the text
at(text, i) == IF i >= 1 /\ i <= Len(text) THEN text[i] ELSE ""

\* a greedy class*: the first position from i on whose character is not in
\* the class, Len(text) + 1 if there is none
span(text, i, class) ==
    CHOOSE j \in i..(Len(text) + 1) :
        /\ j = Len(text) + 1 \/ text[j] \notin class
        /\ \A k \in i..(j - 1) : text[k] \in class

\* a greedy [^...]*: the first position from i on whose character is in
\* the excluded set
span_not(text, i, excluded) ==
    CHOOSE j \in i..(Len(text) + 1) :
        /\ j = Len(text) + 1 \/ text[j] \in excluded
        /\ \A k \in i..(j - 1) : text[k] \notin excluded

\* the literal word stands at position i
starts_with(text, i, word) ==
    /\ i >= 1
    /\ i + Len(word) - 1 <= Len(text)
    /\ SubSeq(text, i, i + Len(word) - 1) = word

\* keyword in text
contains(text, word) ==
    \E i \in 1..(Len(text) + 1) : starts_with(text, i, word)

\* " ".join(parts)
RECURSIVE join(_)
join(parts) ==
    IF parts = <<>> THEN <<>>
    ELSE IF Len(parts) = 1 THEN parts[1]
    ELSE parts[1] \o <<" ">> \o join(Tail(parts))

\* str.strip() of a text of characters
char_strip(text) ==
    SubSeq(text, span(text, 1, SpaceClass),
           CHOOSE j \in 0..Len(text) :
               /\ j = 0 \/ text[j] \notin SpaceClass
               /\ \A k \in (j + 1)..Len(text) : text[k] \in SpaceClass)

\* the value of a string of digits
RECURSIVE digits_value(_)
digits_value(digits) ==
    IF digits = <<>> THEN 0
    ELSE 10 * digits_value(SubSeq(digits, 1, Len(digits) - 1))
         + IndexOf(Digits, digits[Len(digits)]) - 1

(***************************************************************************)
(* AdvancedContentProcessor.analyze_content                                *)
(***************************************************************************)
chart_keywords ==
    <<[chart_type |-> "bar",
       keywords |-> {<<"s", "o", " ", "s", "as", "n", "h">>,
                     <<"p", "h", "aa", "n", " ", "l", "o", "aj", "i">>,
                     <<"t", "h", "oos", "n", "g", " ", "k", "ee">>,
                     <<"d", "uwx", " ", "l", "i", "eej", "u">>,
                     <<"s", "oos", " ", "l", "i", "eej", "u">>}],
      [chart_type |-> "line",
       keywords |-> {<<"x", "u", " ", "h", "uw", "ows", "n", "g">>,
                     <<"t", "h", "owf", "i", " ", "g", "i", "a", "n">>,
                     <<"p", "h", "as", "t", " ", "t", "r", "i", "eer", "n">>,
                     <<"t", "aw", "n", "g", " ", "t", "r", "uw", "owr", "n",
                       "g">>,
                     <<"b", "i", "ees", "n", " ", "dd", "oor", "i">>}],
      [chart_type |-> "pie",
       keywords |-> {<<"t", "yr", " ", "l", "eej">>,
                     <<"p", "h", "aaf", "n", " ", "t", "r", "aw", "m">>,
                     <<"%">>,
                     <<"c", "ow", " ", "c", "aas", "u">>,
                     <<"t", "h", "af", "n", "h", " ", "p", "h", "aaf",
                       "n">>}],
      [chart_type |-> "process",
       keywords |-> {<<"b", "uw", "ows", "c">>,
                     <<"q", "u", "y", " ", "t", "r", "if", "n", "h">>,
                     <<"t", "i", "ees", "n", " ", "t", "r", "if", "n", "h">>,
                     <<"f", "l", "o", "w">>,
                     <<"w", "o", "r", "k", "f", "l", "o", "w">>}]>>

\* \d+(?:[.,]\d+)? from a digit at position i: the position after it
number_end(text, i) ==
    LET e == span(text, i, DigitClass)
    IN  IF at(text, e) \in {".", ","} /\ at(text, e + 1) \in DigitClass
        THEN span(text, e + 1, DigitClass) ELSE e

\* the number and (?:\s*%|\s*tr|\s*ty|\s*k)? after it
token_end(text, i) ==
    LET e == number_end(text, i)
        s == span(text, e, SpaceClass)
    IN  IF at(text, s) = "%" THEN s + 1
        ELSE IF starts_with(text, s, <<"t", "r">>) THEN s + 2
        ELSE IF starts_with(text, s, <<"t", "yr">>) THEN s + 2
        ELSE IF at(text, s) = "k" THEN s + 1
        ELSE e

\* re.findall of the number pattern, scanning from position i
RECURSIVE find_numbers(_, _)
find_numbers(text, i) ==
    IF i > Len(text) THEN <<>>
    ELSE IF text[i] \in DigitClass
    THEN <<SubSeq(text, i, token_end(text, i) - 1)>>
         \o find_numbers(text, token_end(text, i))
    ELSE find_numbers(text, i + 1)

\* the first chart type, in the order of the table, one of whose keywords
\* occurs in the text
RECURSIVE detect_chart_type(_, _)
detect_chart_type(text_lower, n) ==
    IF n > Len(chart_keywords) THEN "None"
    ELSE IF \E keyword \in chart_keywords[n].keywords :
                contains(text_lower, keyword)
    THEN chart_keywords[n].chart_type
    ELSE detect_chart_type(text_lower, n + 1)

step_keywords ==
    {<<"b", "uw", "ows", "c">>, <<"s", "t", "e", "p">>,
     <<"g", "i", "a", "i", " ", "dd", "o", "aj", "n">>}

\* [\s:.-]
SeparatorClass == SpaceClass \cup {":", ".", "-"}

\* the characters [^.!?\n] excludes
SentenceEnd == {".", "!", "?", "\n"}

NoMatch == [found |-> FALSE, from |-> 0, to |-> 0]

Match(from, to) == [found |-> TRUE, from |-> from, to |-> to]

\* the capture ([^.!?\n]+) after the step number text[s .. d-1] and the
\* separators text[d .. q-1]; when nothing is left for the capture the
\* separators, then the digits of the number, are given back one by one
step_capture(text, s, d, q) ==
    IF span_not(text, q, SentenceEnd) > q
    THEN Match(q, span_not(text, q, SentenceEnd))
    ELSE IF \E p \in d..(q - 1) : text[p] \notin SentenceEnd
    THEN LET p == CHOOSE p \in d..(q - 1) :
                      /\ text[p] \notin SentenceEnd
                      /\ \A r \in (p + 1)..(q - 1) : text[r] \in SentenceEnd
         IN  Match(p, span_not(text, p, SentenceEnd))
    ELSE IF d - 1 >= s + 1
    THEN Match(d - 1, span_not(text, d - 1, SentenceEnd))
    ELSE NoMatch

\* the step pattern tried at position i
step_match(text, i) ==
    IF \E keyword \in step_keywords : starts_with(text, i, keyword)
    THEN LET keyword == CHOOSE k \in step_keywords : starts_with(text, i, k)
             s == span(text, i + Len(keyword), SpaceClass)
             d == span(text, s, DigitClass)
         IN  IF at(text, s) \in DigitClass
             THEN step_capture(text, s, d, span(text, d, SeparatorClass))
             ELSE NoMatch
    ELSE NoMatch

\* re.findall of the step pattern, scanning from position i
RECURSIVE find_steps(_, _)
find_steps(text, i) ==
    IF i > Len(text) THEN <<>>
    ELSE LET m == step_match(text, i)
         IN  IF m.found
             THEN <<SubSeq(text, m.from, m.to - 1)>> \o find_steps(text, m.to)
             ELSE find_steps(text, i + 1)

\* list[:n]
take(list, n) == SubSeq(list, 1, Min(n, Len(list)))

\* the record analyze_content returns: numbers[:8], the chart type,
\* steps[:6], and the diagram type when a step was found
analysis_of_untruncated(numbers, chart_type, steps) ==
    [has_numbers |-> numbers # <<>>,
     numbers_data |-> numbers,
     chart_type |-> chart_type,
     process_steps |-> steps,
     diagram_type |-> IF steps # <<>> THEN "process_flow" ELSE "None",
     animation_style |-> "fade_in"]
analysis_of(numbers, chart_type, steps) ==
    [has_numbers |-> numbers # <<>>,
     numbers_data |-> take(numbers, 8),
     chart_type |-> chart_type,
     process_steps |-> take(steps, 6),
     diagram_type |-> IF steps # <<>> THEN "process_flow" ELSE "None",
     animation_style |-> "fade_in"]

analyze_content(text) ==
    analysis_of(find_numbers(lower(text), 1),
                detect_chart_type(lower(text), 1),
                find_steps(lower(text), 1))

(***************************************************************************)
(* ResponsiveFontManager.  Slide dimensions are counted in tenths of an    *)
(* inch; the scale factor is kept as an exact fraction num / den.          *)
(***************************************************************************)
BaseSizes ==
    [presentation_title |-> 36, slide_title |-> 28, subtitle |-> 20,
     heading |-> 18, content_large |-> 16, content_normal |-> 14,
     content_small |-> 12, bullet_main |-> 15, bullet_sub |-> 13,
     caption |-> 10]

\* min(slide_width / 10.0, slide_height / 7.5)
scale_factor_by_aspect(slide_width, slide_height) ==
    [num |-> slide_width, den |-> slide_height]

scale_factor(slide_width, slide_height) ==
    IF slide_width * 75 <= slide_height * 100
    THEN [num |-> slide_width, den |-> 100]
    ELSE [num |-> slide_height, den |-> 75]

\* int(base * scale_factor)
int_scaled(base, scale) == (base * scale.num) \div scale.den

\* ResponsiveFontManager.__init__ and _calculate_base_sizes
calculate_base_sizes_unclamped(slide_width, slide_height) ==
    [slide_width |-> slide_width, slide_height |-> slide_height,
     scale_factor |-> scale_factor(slide_width, slide_height),
     sizes |-> [key \in DOMAIN BaseSizes |->
                   int_scaled(BaseSizes[key],
                              scale_factor(slide_width, slide_height))]]

calculate_base_sizes(slide_width, slide_height) ==
    [slide_width |-> slide_width, slide_height |-> slide_height,
     scale_factor |-> scale_factor(slide_width, slide_height),
     sizes |-> [key \in DOMAIN BaseSizes |->
                   Max(int_scaled(BaseSizes[key],
                                  scale_factor(slide_width, slide_height)),
                       10)]]

\* ResponsiveFontManager.get_title_size
get_title_size(self, text_length) ==
    IF text_length > 80 THEN Max(self.sizes.slide_title - 4, 20)
    ELSE IF text_length > 50 THEN Max(self.sizes.slide_title - 2, 22)
    ELSE self.sizes.slide_title

content_base_size(self, content_type) ==
    IF content_type = "detailed" THEN self.sizes.content_large
    ELSE IF content_type = "heading" THEN self.sizes.heading
    ELSE self.sizes.content_normal

\* ResponsiveFontManager.get_content_size
get_content_size_floor_11(self, text_length, content_type) ==
    IF text_length > 500
    THEN Max(content_base_size(self, content_type) - 3, 11)
    ELSE IF text_length > 300
    THEN Max(content_base_size(self, content_type) - 2, 11)
    ELSE IF text_length > 150
    THEN Max(content_base_size(self, content_type) - 1, 11)
    ELSE content_base_size(self, content_type)

get_content_size(self, text_length, content_type) ==
    IF text_length > 500
    THEN Max(content_base_size(self, content_type) - 3, 11)
    ELSE IF text_length > 300
    THEN Max(content_base_size(self, content_type) - 2, 12)
    ELSE IF text_length > 150
    THEN Max(content_base_size(self, content_type) - 1, 13)
    ELSE content_base_size(self, content_type)

\* ResponsiveFontManager.get_bullet_size: the test for an average length
\* above 150 is an elif of the test for a length above 100
get_bullet_size(self, bullet_count, avg_bullet_length) ==
    LET counted == IF bullet_count > 8 THEN self.sizes.bullet_main - 2
                   ELSE IF bullet_count > 6 THEN self.sizes.bullet_main - 1
                   ELSE self.sizes.bullet_main
        base_size == IF avg_bullet_length > 100 THEN counted - 1
                     ELSE IF avg_bullet_length > 150 THEN counted - 2
                     ELSE counted
    IN  Max(base_size, 11)

\* ResponsiveFontManager.get_spacing: int(font_size * 0.8)
get_spacing(font_size) == (font_size * 8) \div 10

\* no text analysed, no font manager built, no getter called, no content
\* analysed yet
NoAnalysis == [score |-> 0, action |-> "pending", reason |-> ""]

NoFontManager ==
    [slide_width |-> 0, slide_height |-> 0,
     scale_factor |-> [num |-> 0, den |-> 1],
     sizes |-> [key \in DOMAIN BaseSizes |-> 0]]

NoSignal ==
    [op |-> "none", slide_content |-> <<>>, advanced_available |-> FALSE,
     text |-> <<>>, analysis |-> analysis_of(<<>>, "None", <<>>),
     visual |-> "none", charts |-> <<>>, image_added |-> FALSE]

NoLimiter == [max_requests |-> 0, time_window |-> 0, requests |-> <<>>]

RateIdle ==
    /\ limiter = NoLimiter
    /\ now = 0
    /\ rate_log = <<>>

AuxIdle ==
    /\ quality = [text |-> <<>>, result |-> NoAnalysis]
    /\ font_manager = NoFontManager
    /\ font_out = <<>>
    /\ RateIdle
    /\ signal = NoSignal

Init ==
    /\ data \in Decks
    /\ refiner \in Refiners
    /\ memo = <<>>
    /\ calls = 0
    /\ last = NoCall
    /\ deck0 = data
    /\ batch_args = NoBatch
    /\ prs = <<>>
    /\ AuxIdle

(***************************************************************************)
(* Actions of the refiner                                                  *)
(***************************************************************************)
\* BertContentRefiner.refine_content(data)
Returned(frame, pre) ==
    /\ data' = frame.data
    /\ last' = [op |-> "refine_content", pre |-> pre, omap |-> frame.omap,
                texts |-> frame.texts, actions |-> frame.actions,
                decoded |-> frame.decoded, refined |-> frame.refined,
                batches |-> frame.batches]

RefineContent ==
    /\ refiner.kind = "t5"
    /\ calls < MaxCalls
    /\ \E f \in [submitted_inputs(data, refiner.available) \ DOMAIN memo
                    -> GenOut] :
          /\ memo' = Extend(memo, f)
          /\ Returned(refine_content(data, refiner.available,
                                     Extend(memo, f)),
                      Get(data, "slides", <<>>))
    /\ calls' = calls + 1
    /\ UNCHANGED <<refiner, deck0, batch_args, prs>>
    /\ UNCHANGED aux

\* the stub's refine_content(data)
StubRefineContent ==
    /\ refiner.kind = "stub"
    /\ calls < MaxCalls
    /\ data' = stub_refine_content(data)
    /\ last' = [NoCall EXCEPT !.op = "stub_refine_content",
                              !.pre = Get(data, "slides", <<>>)]
    /\ calls' = calls + 1
    /\ UNCHANGED <<refiner, memo, deck0, batch_args, prs>>
    /\ UNCHANGED aux

Next == RefineContent \/ StubRefineContent

Spec == Init /\ [][Next]_vars

(***************************************************************************)
(* refine_content_batch called on its own                                  *)
(***************************************************************************)
BatchTexts == {T_short, T_clar}
BatchActions == {"none", "summarize", "clarify", "grammar"}

BatchArgs ==
    UNION {{[texts |-> t, actions |-> a] :
                t \in [1..n -> BatchTexts], a \in [1..n -> BatchActions]} :
           n \in 0..MaxBatch}

InitBatch ==
    /\ data = [presentation_title |-> "p", slides |-> <<>>]
    /\ refiner \in {[kind |-> "t5", available |-> TRUE],
                    [kind |-> "t5", available |-> FALSE]}
    /\ memo = <<>>
    /\ calls = 0
    /\ last = NoCall
    /\ deck0 = data
    /\ batch_args \in BatchArgs
    /\ prs = <<>>
    /\ AuxIdle

BatchReturned(texts, actions, decoded) ==
    last' = [op |-> "refine_content_batch", pre |-> <<>>, omap |-> <<>>,
             texts |-> texts, actions |-> actions, decoded |-> decoded,
             refined |-> refine_content_batch(refiner.available, texts,
                                              actions, decoded),
             batches |-> generate_batches(refiner.available, texts, actions)]

\* BertContentRefiner.refine_content_batch(texts, actions)
RefineContentBatch ==
    /\ calls < MaxCalls
    /\ \E f \in [(IF generate_batches(refiner.available, batch_args.texts,
                                      batch_args.actions) = <<>>
                  THEN {}
                  ELSE InputSet(batch_inputs(batch_args.texts,
                                             batch_args.actions)))
                 \ DOMAIN memo -> GenOut] :
          /\ memo' = Extend(memo, f)
          /\ BatchReturned(batch_args.texts, batch_args.actions,
                IF generate_batches(refiner.available, batch_args.texts,
                                    batch_args.actions) = <<>>
                THEN <<>>
                ELSE Decoded(Extend(memo, f),
                             batch_inputs(batch_args.texts,
                                          batch_args.actions)))
    /\ calls' = calls + 1
    /\ UNCHANGED <<data, refiner, deck0, batch_args, prs>>
    /\ UNCHANGED aux

NextBatch == RefineContentBatch

SpecBatch == InitBatch /\ [][NextBatch]_vars

(***************************************************************************)
(* EnhancedPowerPointGenerator: layout strategy of an advanced content     *)
(* slide                                                                   *)
(***************************************************************************)
\* Python truth values that has_image can take
Truthy(v) == v = "True"

Exists(path) == path = "photo.png"

\* image_path and os.path.exists(image_path)
py_and_exists(image_path) ==
    IF image_path = "None" THEN "None"
    ELSE IF image_path = "" THEN ""
    ELSE IF Exists(image_path) THEN "True" ELSE "False"

determine_layout_strategy_photo_first(has_charts, has_diagrams, has_content, has_image) ==
    IF Truthy(has_image) /\ has_content THEN "image_and_content"
    ELSE IF has_charts /\ has_diagrams THEN "mixed_media"
    ELSE IF has_charts /\ has_content THEN "charts_and_content"
    ELSE IF has_diagrams /\ has_content THEN "diagrams_and_content"
    ELSE IF has_charts THEN "charts_only"
    ELSE IF has_diagrams THEN "diagrams_only"
    ELSE "content_only"

determine_layout_strategy(has_charts, has_diagrams, has_content, has_image) ==
    IF has_charts /\ has_diagrams THEN "mixed_media"
    ELSE IF has_charts /\ has_content THEN "charts_and_content"
    ELSE IF has_diagrams /\ has_content THEN "diagrams_and_content"
    ELSE IF has_charts THEN "charts_only"
    ELSE IF has_diagrams THEN "diagrams_only"
    ELSE IF Truthy(has_image) /\ has_content THEN "image_and_content"
    ELSE "content_only"

ImagePaths == {"None", "", "missing.png", "photo.png"}
SlideContents == {<<>>, <<T_short>>}

Images(kind, n) == [i \in 1..n |-> <<kind, i>>]

SlideDatas ==
    {[slide_title |-> "t", quickchart_images |-> Images("chart", q),
      mermaid_images |-> Images("mermaid", m)] :
        q \in 0..MaxImages, m \in 0..MaxImages}
    \cup {[slide_title |-> "t", quickchart_images |-> Images("chart", q),
           mermaid_images |-> Images("mermaid", m), slide_content |-> c] :
            q \in 0..MaxImages, m \in 0..MaxImages, c \in SlideContents}

\* the slide added by _create_advanced_content_slide, with the arguments of
\* the strategy decision and the strategy chosen
advanced_content_slide(slide_data, image_path) ==
    [slide_title |-> Get(slide_data, "slide_title", "Content"),
     has_charts |-> Len(Get(slide_data, "quickchart_images", <<>>)) > 0,
     has_diagrams |-> Len(Get(slide_data, "mermaid_images", <<>>)) > 0,
     has_content |-> Get(slide_data, "slide_content", <<>>) # <<>>,
     has_image |-> py_and_exists(image_path),
     slide_data |-> slide_data,
     image_path |-> image_path,
     layout_strategy |->
        determine_layout_strategy(
            Len(Get(slide_data, "quickchart_images", <<>>)) > 0,
            Len(Get(slide_data, "mermaid_images", <<>>)) > 0,
            Get(slide_data, "slide_content", <<>>) # <<>>,
            py_and_exists(image_path))]

InitLayout ==
    /\ data = [presentation_title |-> "p", slides |-> <<>>]
    /\ refiner = [kind |-> "t5", available |-> FALSE]
    /\ memo = <<>>
    /\ calls = 0
    /\ last = NoCall
    /\ deck0 = data
    /\ batch_args = NoBatch
    /\ prs = <<>>
    /\ AuxIdle

\* EnhancedPowerPointGenerator._create_advanced_content_slide
CreateAdvancedContentSlide ==
    /\ Len(prs) < MaxPrsSlides
    /\ \E slide_data \in SlideDatas, image_path \in ImagePaths :
          prs' = Append(prs, advanced_content_slide(slide_data, image_path))
    /\ UNCHANGED <<data, refiner, memo, calls, last, deck0, batch_args>>
    /\ UNCHANGED aux

NextLayout == CreateAdvancedContentSlide

SpecLayout == InitLayout /\ [][NextLayout]_vars

(***************************************************************************)
(* Properties                                                              *)
(***************************************************************************)
\* the decision arguments of a created slide, as booleans
HasPhoto(slide) == Truthy(slide.has_image)

PriorityTable(c, d, t, p) ==
    <<[when |-> c /\ d, tag |-> "mixed_media"],
      [when |-> c /\ t, tag |-> "charts_and_content"],
      [when |-> d /\ t, tag |-> "diagrams_and_content"],
      [when |-> c, tag |-> "charts_only"],
      [when |-> d, tag |-> "diagrams_only"],
      [when |-> p /\ t, tag |-> "image_and_content"],
      [when |-> TRUE, tag |-> "content_only"]>>

FirstMatch(rows) ==
    rows[CHOOSE i \in 1..Len(rows) :
            rows[i].when /\ \A j \in 1..(i - 1) : ~rows[j].when].tag

\* C1: the layout strategy of every created slide is the tag of the first
\* matching row of the priority table for its four booleans; two slides with
\* the same four booleans get the same strategy; image_and_content is never
\* chosen without a photo.
C1_LayoutPriority ==
    /\ \A k \in 1..Len(prs) :
          /\ prs[k].layout_strategy =
                FirstMatch(PriorityTable(prs[k].has_charts,
                                         prs[k].has_diagrams,
                                         prs[k].has_content,
                                         HasPhoto(prs[k])))
          /\ prs[k].layout_strategy = "image_and_content" => HasPhoto(prs[k])
    /\ \A k, n \in 1..Len(prs) :
          (/\ prs[k].has_charts = prs[n].has_charts
           /\ prs[k].has_diagrams = prs[n].has_diagrams
           /\ prs[k].has_content = prs[n].has_content
           /\ HasPhoto(prs[k]) = HasPhoto(prs[n]))
          => prs[k].layout_strategy = prs[n].layout_strategy

C1_Witness ==
    /\ Len(prs) = 2
    /\ prs[1].layout_strategy = "mixed_media"
    /\ prs[1].has_content /\ HasPhoto(prs[1])
    /\ prs[2].layout_strategy = "image_and_content"

NonNone(actions) == {k \in 1..Len(actions) : actions[k] # "none"}

\* C2: one refine_content makes at most one call of model.generate, and none
\* when the refiner is unavailable, no fragment was collected or every
\* fragment's action is 'none'.
C2_AtMostOneGenerateCall ==
    last.op = "refine_content" =>
        /\ Len(last.batches) <= 1
        /\ (~refiner.available \/ last.texts = <<>>
            \/ NonNone(last.actions) = {}) => last.batches = <<>>

C2_Witness ==
    /\ last.op = "refine_content"
    /\ Cardinality(NonNone(last.actions)) >= 2
    /\ Len(last.batches) = 1
    /\ Len(last.batches[1]) = Cardinality(NonNone(last.actions))

\* C3: refine_content_batch of an available refiner returns a list as long as
\* texts; a position whose action is 'none' holds the original text, and the
\* k-th position whose action is not 'none' holds the collaborator's k-th
\* output.
C3_BatchMapsBack ==
    (last.op = "refine_content_batch" /\ refiner.available) =>
        /\ Len(last.refined) = Len(last.texts)
        /\ \A i \in 1..Len(last.texts) :
              IF last.actions[i] = "none"
              THEN last.refined[i] = last.texts[i]
              ELSE last.refined[i] =
                      last.decoded[Cardinality(
                          {k \in NonNone(last.actions) : k <= i})]

C3_Witness ==
    /\ last.op = "refine_content_batch"
    /\ refiner.available
    /\ Len(last.texts) = 2
    /\ last.actions[1] = "none"
    /\ last.actions[2] # "none"
    /\ last.refined[2] # last.texts[2]

RefinedByAvailable ==
    /\ last.op = "refine_content"
    /\ refiner.available
    /\ last.pre # <<>>

\* C4 (as claimed): after a second refine_content the shadow fields still hold
\* the text the deck had before the first call.
C4_ShadowKeepsFirstText ==
    (RefinedByAvailable /\ calls >= 2) =>
        \A i \in 1..Len(data["slides"]) :
            /\ Has(data["slides"][i], "original_content") =>
                  data["slides"][i]["original_content"]
                    = Get(deck0["slides"][i], "content", <<>>)
            /\ Has(data["slides"][i], "original_bullet_points") =>
                  data["slides"][i]["original_bullet_points"]
                    = Get(deck0["slides"][i], "bullet_points", <<>>)

FragmentChanged(k) ==
    /\ strip(last.texts[k]) # strip(last.refined[k])
    /\ last.actions[k] # "none"

RECURSIVE PenaltySum(_, _, _)
PenaltySum(i, k, only_changed) ==
    IF k > Len(last.omap) THEN 0
    ELSE (IF /\ last.omap[k].slide_index = i
             /\ (only_changed => FragmentChanged(k))
          THEN ScoreBase - last.omap[k].analysis.score
          ELSE 0)
         + PenaltySum(i, k + 1, only_changed)

PrevScore(i) == Get(last.pre[i], "quality_score", ScoreBase)

\* C5 (as claimed): a slide's score is lowered by (1 - fragment score) exactly
\* for its fragments that the rewrite changed.
C5_DiscountOnlyChanged ==
    RefinedByAvailable =>
        \A i \in 1..Len(data["slides"]) :
            data["slides"][i]["quality_score"]
                = Max(QualityFloor, PrevScore(i) - PenaltySum(i, 1, TRUE))

\* C5 (amended): a slide's score is lowered by (1 - fragment score) for every
\* collected fragment of the slide, changed by the rewrite or not, and then
\* floored at 0.1.
C5_DiscountEveryFragment ==
    RefinedByAvailable =>
        \A i \in 1..Len(data["slides"]) :
            data["slides"][i]["quality_score"]
                = Max(QualityFloor, PrevScore(i) - PenaltySum(i, 1, FALSE))

C5_Witness ==
    /\ RefinedByAvailable
    /\ \E k \in 1..Len(last.omap) :
          /\ last.actions[k] # "none"
          /\ ~FragmentChanged(k)
          /\ data["slides"][last.omap[k].slide_index]["quality_score"]
                < PrevScore(last.omap[k].slide_index)

RECURSIVE ScoreSum(_)
ScoreSum(slides) ==
    IF slides = <<>> THEN 0
    ELSE Head(slides)["quality_score"] + ScoreSum(Tail(slides))

C7_ScoreNeverBelowFloor ==
    (calls >= 1 /\ refiner.kind = "t5" /\ refiner.available) =>
        \A i \in 1..Len(data["slides"]) :
            /\ Has(data["slides"][i], "quality_score")
            /\ data["slides"][i]["quality_score"] >= QualityFloor

C7_Witness ==
    /\ RefinedByAvailable
    /\ calls >= 2
    /\ \E i \in 1..Len(data["slides"]) :
          /\ PrevScore(i) < ScoreBase
          /\ PrevScore(i) - PenaltySum(i, 1, FALSE) < QualityFloor
          /\ data["slides"][i]["quality_score"] = QualityFloor

Texts(slides) ==
    [i \in 1..Len(slides) |->
        [k \in {"content", "bullet_points", "slide_content",
                "detailed_content"} \cap DOMAIN slides[i] |-> slides[i][k]]]

\* C8 (as claimed): refine_content of an unavailable refiner leaves the text
\* unchanged, stamps every slide with quality_score 0.8 and bert_refined
\* false, and attaches stats whose method_used is 'rule-based'.
C8_UnavailableStillStamps ==
    (last.op \in {"refine_content", "stub_refine_content"}
     /\ ~refiner.available) =>
        /\ Texts(data["slides"]) = Texts(last.pre)
        /\ \A i \in 1..Len(data["slides"]) :
              /\ Has(data["slides"][i], "quality_score")
              /\ data["slides"][i]["quality_score"] = StubQuality
              /\ Has(data["slides"][i], "bert_refined")
              /\ data["slides"][i]["bert_refined"] = FALSE
        /\ Has(data, "bert_refinement_stats")
        /\ data["bert_refinement_stats"].method_used = "rule-based"

FragmentOf(i, text) ==
    \E k \in 1..Len(last.omap) :
        last.omap[k].slide_index = i /\ last.texts[k] = text

\* C9 (as claimed): for a slide in the outline shape, refine_content collects
\* its body paragraph (detailed_content) and each bullet of slide_content as
\* fragments.
C9_OutlineFragmentsCollected ==
    RefinedByAvailable =>
        \A i \in 1..Len(last.pre) :
            /\ Has(last.pre[i], "detailed_content") =>
                  FragmentOf(i, last.pre[i]["detailed_content"])
            /\ Has(last.pre[i], "slide_content") =>
                  \A j \in 1..Len(last.pre[i]["slide_content"]) :
                      FragmentOf(i, last.pre[i]["slide_content"][j])

\* C10 (as claimed): after refine_content by an available refiner every slide
\* carries quality_score, bert_refined and bert_suggestions, and the deck
\* carries bert_refinement_stats.
C10_EverySlideAnnotated ==
    (last.op = "refine_content" /\ refiner.available) =>
        /\ \A i \in 1..Len(data["slides"]) :
              {"quality_score", "bert_refined", "bert_suggestions"}
                  \subseteq DOMAIN data["slides"][i]
        /\ Has(data, "bert_refinement_stats")

(***************************************************************************)
(* Specification of _analyze_text_quality alone: the text is drawn from    *)
(* the texts of n words of which k are longer than 12 characters           *)
(***************************************************************************)
CoreIdle ==
    /\ data = [presentation_title |-> "p", slides |-> <<>>]
    /\ refiner = [kind |-> "t5", available |-> TRUE]
    /\ memo = <<>>
    /\ calls = 0
    /\ last = NoCall
    /\ deck0 = data
    /\ batch_args = NoBatch
    /\ prs = <<>>

\* k words of 13 characters followed by n - k words of 3 characters
MixedText(n, k) ==
    [i \in 1..(IF n = 0 THEN 0 ELSE 2 * n - 1) |->
        IF i % 2 = 0 THEN WS ELSE IF (i + 1) \div 2 <= k THEN 13 ELSE 3]

AnalyzeTexts ==
    {MixedText(n, k) : n \in 0..MaxWordCount, k \in 0..MaxWordCount} \cup
    {Pad(MixedText(n, n)) : n \in 0..2}

InitAnalyze ==
    /\ CoreIdle
    /\ quality \in {[text |-> t, result |-> NoAnalysis] : t \in AnalyzeTexts}
    /\ font_manager = NoFontManager
    /\ font_out = <<>>
    /\ RateIdle
    /\ signal = NoSignal

\* BertContentRefiner._analyze_text_quality(text)
AnalyzeTextQuality ==
    /\ quality.result = NoAnalysis
    /\ quality' = [quality EXCEPT !.result = analyze_text_quality(quality.text)]
    /\ UNCHANGED core
    /\ UNCHANGED <<font_manager, font_out, signal>>
    /\ UNCHANGED rate

NextAnalyze == AnalyzeTextQuality

SpecAnalyze == InitAnalyze /\ [][NextAnalyze]_vars

(***************************************************************************)
(* Properties of _analyze_text_quality                                     *)
(***************************************************************************)
Analyzed == quality.result # NoAnalysis

WordCount == Len(split(quality.text))

LongWordCount == Len(SelectSeq(split(quality.text), LAMBDA w : w > 12))

\* C11: a text of more than 40 whitespace-separated words gets action
\* 'summarize' and score 0.7, whatever its share of long words.
C11_LongTextSummarized ==
    (Analyzed /\ WordCount > 40) =>
        /\ quality.result.action = "summarize"
        /\ quality.result.score = 7

\* a text of 41 words, all of them long, has been analysed
C11_Witness ==
    /\ Analyzed
    /\ WordCount > 40
    /\ LongWordCount = WordCount

\* C12 (as claimed): a text of at most 40 words gets 'clarify' with score 0.8
\* exactly when long words / words > 0.15, and 'none' with score 1.0
\* otherwise, the empty text included.
C12_ClarifyIffShareAbove15 ==
    (Analyzed /\ WordCount <= 40) =>
        IF WordCount > 0 /\ 100 * LongWordCount > 15 * WordCount
        THEN quality.result.action = "clarify" /\ quality.result.score = 8
        ELSE quality.result.action = "none" /\ quality.result.score = 10

(***************************************************************************)
(* Specification of the font manager: a manager is built for a slide       *)
(* geometry, then the getters are called, directly or by the generator     *)
(* adding a title to a slide.  font_out keeps the last two calls.          *)
(***************************************************************************)
\* slide dimensions in tenths of an inch
Dimensions == {10, 75, 80, 100, 133}

InitFont ==
    /\ CoreIdle
    /\ AuxIdle

Built == font_manager.slide_width > 0

\* a getter returns: font_out keeps the call before it and this call
FontReturned(op, a, b, kind, result) ==
    font_out' =
        (IF font_out = <<>> THEN <<>> ELSE <<font_out[Len(font_out)]>>)
        \o <<[op |-> op, a |-> a, b |-> b, kind |-> kind, result |-> result]>>

\* ResponsiveFontManager(slide_width_inches, slide_height_inches)
NewResponsiveFontManager ==
    /\ ~Built
    /\ \E slide_width \in Dimensions, slide_height \in Dimensions :
          font_manager' = calculate_base_sizes(slide_width, slide_height)
    /\ UNCHANGED core
    /\ UNCHANGED <<quality, font_out, signal>>
    /\ UNCHANGED rate

GetTitleSize ==
    /\ Built
    /\ \E text_length \in {0, 50, 51, 80, 81} :
          FontReturned("get_title_size", text_length, 0, "",
                       get_title_size(font_manager, text_length))
    /\ UNCHANGED core
    /\ UNCHANGED <<quality, font_manager, signal>>
    /\ UNCHANGED rate

GetContentSize ==
    /\ Built
    /\ \E text_length \in {0, 150, 151, 300, 301, 500, 501},
          content_type \in {"normal", "detailed", "heading"} :
          FontReturned("get_content_size", text_length, 0, content_type,
                       get_content_size(font_manager, text_length,
                                        content_type))
    /\ UNCHANGED core
    /\ UNCHANGED <<quality, font_manager, signal>>
    /\ UNCHANGED rate

GetBulletSize_writes_table ==
    /\ Built
    /\ \E bullet_count \in {0, 6, 7, 8, 9},
          avg_bullet_length \in {50, 100, 101, 150, 151} :
          /\ FontReturned("get_bullet_size", bullet_count, avg_bullet_length,
                          "",
                          get_bullet_size(font_manager, bullet_count,
                                          avg_bullet_length))
          /\ font_manager' =
                [font_manager EXCEPT !.sizes.bullet_main =
                    get_bullet_size(font_manager, bullet_count,
                                    avg_bullet_length)]
    /\ UNCHANGED core
    /\ UNCHANGED <<quality, signal>>
    /\ UNCHANGED rate

GetBulletSize ==
    /\ Built
    /\ \E bullet_count \in {0, 6, 7, 8, 9},
          avg_bullet_length \in {50, 100, 101, 150, 151} :
          FontReturned("get_bullet_size", bullet_count, avg_bullet_length, "",
                       get_bullet_size(font_manager, bullet_count,
                                       avg_bullet_length))
    /\ UNCHANGED core
    /\ UNCHANGED <<quality, font_manager, signal>>
    /\ UNCHANGED rate

GetSpacing ==
    /\ Built
    /\ \E font_size \in {10, 14, 22, 28} :
          FontReturned("get_spacing", font_size, 0, "", get_spacing(font_size))
    /\ UNCHANGED core
    /\ UNCHANGED <<quality, font_manager, signal>>
    /\ UNCHANGED rate

\* EnhancedPowerPointGenerator._add_title_to_slide: the paragraph gets the
\* title size (result) and the spacing of that size (b)
AddTitleToSlide ==
    /\ Built
    /\ \E title_length \in {0, 50, 51, 80, 81} :
          FontReturned("add_title_to_slide", title_length,
                       get_spacing(get_title_size(font_manager, title_length)),
                       "", get_title_size(font_manager, title_length))
    /\ UNCHANGED core
    /\ UNCHANGED <<quality, font_manager, signal>>
    /\ UNCHANGED rate

NextFont ==
    \/ NewResponsiveFontManager
    \/ GetTitleSize
    \/ GetContentSize
    \/ GetBulletSize
    \/ GetSpacing
    \/ AddTitleToSlide

SpecFont == InitFont /\ [][NextFont]_vars

(***************************************************************************)
(* Properties of the font manager                                          *)
(***************************************************************************)
\* floor(base * min(width / 10, height / 7.5)), for dimensions in tenths
FloorScaled(base, width, height) ==
    Min((base * width) \div 100, (base * height) \div 75)

\* C13: every entry of the font size table is at least 10 and equals
\* max(10, floor(base * scale)) with scale = min(width/10, height/7.5).
C13_TableFlooredAndClamped ==
    Built =>
        \A key \in DOMAIN BaseSizes :
            /\ font_manager.sizes[key] >= 10
            /\ font_manager.sizes[key] =
                  Max(10, FloorScaled(BaseSizes[key], font_manager.slide_width,
                                      font_manager.slide_height))

\* a table with an entry at the clamp and an entry above it
C13_Witness ==
    /\ Built
    /\ FloorScaled(BaseSizes.caption, font_manager.slide_width,
                   font_manager.slide_height) < 10
    /\ font_manager.sizes.caption = 10
    /\ font_manager.sizes.presentation_title > 10

\* scale a <= scale b, for two fractions
ScaleLeq(a, b) == a.num * b.den <= b.num * a.den

\* C14 (as claimed): the scale factor is monotonic in min(width, height): a
\* geometry whose smaller dimension is not larger has no larger scale factor.
C14_ScaleMonotoneInMin ==
    Built =>
        \A w \in Dimensions, h \in Dimensions :
            Min(w, h) <= Min(font_manager.slide_width,
                             font_manager.slide_height)
                => ScaleLeq(calculate_base_sizes(w, h).scale_factor,
                            font_manager.scale_factor)

\* C14 (amended): the scale factor is monotonic in the dimensions: a geometry
\* that is not wider and not higher has no larger scale factor.
C14_ScaleMonotoneInEachDimension ==
    Built =>
        \A w \in Dimensions, h \in Dimensions :
            (w <= font_manager.slide_width /\ h <= font_manager.slide_height)
                => ScaleLeq(calculate_base_sizes(w, h).scale_factor,
                            font_manager.scale_factor)

\* the manager of a geometry that has a strictly narrower, not higher
\* geometry with a strictly smaller scale factor
C14_Witness ==
    /\ Built
    /\ \E w \in Dimensions, h \in Dimensions :
          /\ w < font_manager.slide_width
          /\ h <= font_manager.slide_height
          /\ ~ScaleLeq(font_manager.scale_factor,
                       calculate_base_sizes(w, h).scale_factor)

\* the last two calls are calls of the same getter for the same content type
SameGetter ==
    /\ Len(font_out) = 2
    /\ font_out[1].op = font_out[2].op
    /\ font_out[1].kind = font_out[2].kind

\* C15 (as claimed): for a fixed geometry the title and content sizes are
\* non-increasing in the text length, and the bullet size is non-increasing
\* in the bullet count and the average bullet length.
C15_SizesNonIncreasing ==
    SameGetter =>
        /\ (/\ font_out[1].op \in {"get_title_size", "get_content_size"}
            /\ font_out[1].a <= font_out[2].a)
              => font_out[1].result >= font_out[2].result
        /\ (/\ font_out[1].op = "get_bullet_size"
            /\ font_out[1].a <= font_out[2].a
            /\ font_out[1].b <= font_out[2].b)
              => font_out[1].result >= font_out[2].result

LastCall == font_out[Len(font_out)]

LastBase == content_base_size(font_manager, LastCall.kind)

\* C16 (as claimed): get_content_size returns the base size of the role
\* reduced by 0, 1, 2, 3 points in the bands <= 150, <= 300, <= 500, > 500,
\* floored at 11 in every reduced band.
C16_ContentBandsFloor11 ==
    (font_out # <<>> /\ LastCall.op = "get_content_size") =>
        LastCall.result =
            IF LastCall.a <= 150 THEN LastBase
            ELSE IF LastCall.a <= 300 THEN Max(LastBase - 1, 11)
            ELSE IF LastCall.a <= 500 THEN Max(LastBase - 2, 11)
            ELSE Max(LastBase - 3, 11)

\* C16 (amended): the reduced bands are floored at 13 (151..300),
\* 12 (301..500) and 11 (above 500).
C16_ContentBandsOwnFloors ==
    (font_out # <<>> /\ LastCall.op = "get_content_size") =>
        LastCall.result =
            IF LastCall.a <= 150 THEN LastBase
            ELSE IF LastCall.a <= 300 THEN Max(LastBase - 1, 13)
            ELSE IF LastCall.a <= 500 THEN Max(LastBase - 2, 12)
            ELSE Max(LastBase - 3, 11)

\* a text of 151..300 characters whose reduced size sits at the floor of 13
C16_Witness ==
    /\ font_out # <<>>
    /\ LastCall.op = "get_content_size"
    /\ LastCall.a > 150
    /\ LastCall.a <= 300
    /\ LastBase - 1 < 13
    /\ LastCall.result = 13

\* C17 (as claimed): get_bullet_size returns max(11, base - c - l), c = 2
\* for more than 8 bullets, 1 for 7 or 8, else 0; l = 2 for an average
\* length above 150, 1 above 100 up to 150, else 0.
C17_BulletSizeFormula ==
    (font_out # <<>> /\ LastCall.op = "get_bullet_size") =>
        LastCall.result =
            Max(11, font_manager.sizes.bullet_main
                    - (IF LastCall.a > 8 THEN 2
                       ELSE IF LastCall.a > 6 THEN 1 ELSE 0)
                    - (IF LastCall.b > 150 THEN 2
                       ELSE IF LastCall.b > 100 THEN 1 ELSE 0))

\* C18: once the manager is built, no getter call and no slide creation
\* changes its scale factor or its font size table.
C18_TableReadOnly ==
    [][Built => font_manager' = font_manager]_vars

\* two calls have returned, one of them from a slide creation, and the
\* manager is the one its geometry was built with
C18_Witness ==
    /\ Len(font_out) = 2
    /\ font_out[1].op = "add_title_to_slide"
    /\ font_out[2].op = "get_bullet_size"
    /\ font_out[2].result < font_manager.sizes.bullet_main
    /\ font_manager = calculate_base_sizes(font_manager.slide_width,
                                           font_manager.slide_height)

(***************************************************************************)
(* QuickChartMermaidGenerator.extract_chart_data_from_text.  The patterns  *)
(* ignore case: they are matched on the lower-cased text and the groups    *)
(* are taken from the text itself.                                         *)
(***************************************************************************)
\* (tr|trieu|million|ty|billion|k|thousand), in the order of the pattern
unit_words ==
    <<<<"t", "r">>, <<"t", "r", "i", "eej", "u">>,
      <<"m", "i", "l", "l", "i", "o", "n">>, <<"t", "yr">>,
      <<"b", "i", "l", "l", "i", "o", "n">>, <<"k">>,
      <<"t", "h", "o", "u", "s", "a", "n", "d">>>>

RECURSIVE unit_at(_, _, _)
unit_at(text_lower, s, n) ==
    IF n > Len(unit_words) THEN <<>>
    ELSE IF starts_with(text_lower, s, unit_words[n]) THEN unit_words[n]
    ELSE unit_at(text_lower, s, n + 1)

\* the normalisation of the units
unit_multiplier(unit) ==
    IF unit \in {unit_words[1], unit_words[2], unit_words[3]} THEN 1000000
    ELSE IF unit \in {unit_words[4], unit_words[5]} THEN 1000000000
    ELSE IF unit \in {unit_words[6], unit_words[7]} THEN 1000
    ELSE 1

RECURSIVE power_of_ten(_)
power_of_ten(n) == IF n = 0 THEN 1 ELSE 10 * power_of_ten(n - 1)

\* float(number.replace(',', '.')) * multiplier, kept as the exact fraction
\* num / den and the multiplier
float_of(number, multiplier) ==
    [num |-> digits_value(SelectSeq(number, LAMBDA c : c \in DigitClass)),
     den |-> IF span(number, 1, DigitClass) > Len(number) THEN 1
             ELSE power_of_ten(Len(number) - span(number, 1, DigitClass)),
     multiplier |-> multiplier]

NoGroups ==
    [found |-> FALSE, label |-> <<>>, value |-> float_of(<<>>, 1), to |-> 0]

Groups(label, value, to) ==
    [found |-> TRUE, label |-> label, value |-> value, to |-> to]

\* :\s*(number)\s*(unit)? with the colon expected at position c
value_groups(text, text_lower, label, c) ==
    LET s == span(text_lower, c + 1, SpaceClass)
        e == number_end(text_lower, s)
        unit == unit_at(text_lower, span(text_lower, e, SpaceClass), 1)
    IN  IF at(text_lower, c) = ":" /\ at(text_lower, s) \in DigitClass
        THEN Groups(label,
                    float_of(SubSeq(text, s, e - 1), unit_multiplier(unit)),
                    span(text_lower, e, SpaceClass) + Len(unit))
        ELSE NoGroups

\* (Q[1-4]|quy\s*[1-4]|quarter\s*[1-4]) at position i: the position after
\* it, 0 if it does not match
quarter_end(text_lower, i) ==
    LET spelled(d) ==
            IF at(text_lower, d) \in {"1", "2", "3", "4"} THEN d + 1 ELSE 0
    IN  IF /\ at(text_lower, i) = "q"
           /\ at(text_lower, i + 1) \in {"1", "2", "3", "4"}
        THEN i + 2
        ELSE IF starts_with(text_lower, i, <<"q", "u", "ys">>)
        THEN spelled(span(text_lower, i + 3, SpaceClass))
        ELSE IF starts_with(text_lower, i,
                            <<"q", "u", "a", "r", "t", "e", "r">>)
        THEN spelled(span(text_lower, i + 7, SpaceClass))
        ELSE 0

quarter_labelled(text, text_lower, i, e) ==
    IF e = 0 THEN NoGroups
    ELSE value_groups(text, text_lower, upper(SubSeq(text, i, e - 1)), e)

\* (20\d{2}) at position i
year_labelled(text, text_lower, i) ==
    IF /\ at(text_lower, i) = "2"
       /\ at(text_lower, i + 1) = "0"
       /\ at(text_lower, i + 2) \in DigitClass
       /\ at(text_lower, i + 3) \in DigitClass
    THEN value_groups(text, text_lower, SubSeq(text, i, i + 3), i + 4)
    ELSE NoGroups

\* [a-zA-ZÀ-ỹ\s]
LabelClass == Range(LowerLetters) \cup Range(UpperLetters) \cup SpaceClass

\* ([letters and white space]+):\s*(number)\s*% with the label text[i .. c-1]
percent_labelled(text, i, c) ==
    LET s == span(text, c + 1, SpaceClass)
        e == number_end(text, s)
        u == span(text, e, SpaceClass)
    IN  IF /\ c > i
           /\ at(text, c) = ":"
           /\ at(text, s) \in DigitClass
           /\ at(text, u) = "%"
        THEN Groups(char_strip(SubSeq(text, i, c - 1)),
                    float_of(SubSeq(text, s, e - 1), 1), u + 1)
        ELSE NoGroups

match_at(pattern, text, text_lower, i) ==
    IF pattern = "quarter"
    THEN quarter_labelled(text, text_lower, i, quarter_end(text_lower, i))
    ELSE IF pattern = "percentage"
    THEN percent_labelled(text, i, span(text, i, LabelClass))
    ELSE year_labelled(text, text_lower, i)

\* re.findall(pattern, text, re.IGNORECASE), scanning from position i
RECURSIVE find_matches(_, _, _, _)
find_matches(pattern, text, text_lower, i) ==
    IF i > Len(text) THEN <<>>
    ELSE LET m == match_at(pattern, text, text_lower, i)
         IN  IF m.found
             THEN <<m>> \o find_matches(pattern, text, text_lower, m.to)
             ELSE find_matches(pattern, text, text_lower, i + 1)

\* the chart of a pattern: one label and one value for each match, no chart
\* without a match
chart_of_matches(type, matches) ==
    IF matches # <<>>
    THEN <<[type |-> type,
            labels |-> [n \in 1..Len(matches) |-> matches[n].label],
            values |-> [n \in 1..Len(matches) |-> matches[n].value]]>>
    ELSE <<>>

extract_chart_data_from_text(text) ==
    chart_of_matches("bar", find_matches("quarter", text, lower(text), 1))
    \o chart_of_matches("pie",
                        find_matches("percentage", text, lower(text), 1))
    \o chart_of_matches("line", find_matches("year", text, lower(text), 1))

(***************************************************************************)
(* EnhancedPowerPointGenerator._fallback_advanced_layout and               *)
(* _add_chart_to_slide                                                     *)
(***************************************************************************)
\* ''.join(filter(str.isdigit, str(num_str).replace('.', '').replace(',', '')))
clean_num(num_str) ==
    SelectSeq(SelectSeq(num_str, LAMBDA c : c \notin {".", ","}),
              LAMBDA c : c \in DigitClass)

\* the data points of at most 6 numbers
data_points(numbers) ==
    [n \in 1..Len(SelectSeq(take(numbers, 6),
                            LAMBDA num_str : clean_num(num_str) # <<>>)) |->
        float_of(clean_num(SelectSeq(take(numbers, 6),
                     LAMBDA num_str : clean_num(num_str) # <<>>)[n]), 1)]

\* EnhancedPowerPointGenerator._add_chart_to_slide: the chart it draws
add_chart_to_slide(analysis) ==
    LET points == data_points(analysis.numbers_data)
    IN  IF Len(points) >= 2
        THEN <<[type |-> IF analysis.chart_type \in {"pie", "line"}
                         THEN analysis.chart_type ELSE "bar",
                labels |-> [n \in 1..Len(points) |->
                               <<"I", "t", "e", "m", " ", Digits[n + 1]>>],
                values |-> points]>>
        ELSE <<>>

\* the visualisation _fallback_advanced_layout decides on
fallback_visual_steps_first(analysis) ==
    IF analysis.process_steps # <<>>
    THEN [visual |-> "process_diagram", charts |-> <<>>]
    ELSE IF analysis.has_numbers /\ Len(analysis.numbers_data) >= 2
    THEN [visual |-> "chart", charts |-> add_chart_to_slide(analysis)]
    ELSE [visual |-> "enhanced_content", charts |-> <<>>]

fallback_visual(analysis) ==
    IF analysis.has_numbers /\ Len(analysis.numbers_data) >= 2
    THEN [visual |-> "chart", charts |-> add_chart_to_slide(analysis)]
    ELSE IF analysis.process_steps # <<>>
    THEN [visual |-> "process_diagram", charts |-> <<>>]
    ELSE [visual |-> "enhanced_content", charts |-> <<>>]

Laid(slide_content, advanced_available, analysis, shown, image_added) ==
    [op |-> "fallback_advanced_layout", slide_content |-> slide_content,
     advanced_available |-> advanced_available,
     text |-> join(slide_content), analysis |-> analysis,
     visual |-> shown.visual, charts |-> shown.charts,
     image_added |-> image_added]

fallback_advanced_layout(slide_content, advanced_available, image_path) ==
    IF advanced_available
    THEN Laid(slide_content, TRUE, analyze_content(join(slide_content)),
              fallback_visual(analyze_content(join(slide_content))),
              Truthy(py_and_exists(image_path)))
    ELSE Laid(slide_content, FALSE, analysis_of(<<>>, "None", <<>>),
              [visual |-> "enhanced_content", charts |-> <<>>],
              Truthy(py_and_exists(image_path)))

(***************************************************************************)
(* Specification of the chart paths: a slide's bullets are laid out by     *)
(* _fallback_advanced_layout, or their text is given to                    *)
(* extract_chart_data_from_text                                            *)
(***************************************************************************)
\* "Q1: 100tr, Q2: 150tr, Q3: 200tr, Q4: 180tr"
QuarterText ==
    <<"Q", "1", ":", " ", "1", "0", "0", "t", "r", ",", " ", "Q", "2",
      ":", " ", "1", "5", "0", "t", "r", ",", " ", "Q", "3", ":", " ",
      "2", "0", "0", "t", "r", ",", " ", "Q", "4", ":", " ", "1", "8",
      "0", "t", "r">>

\* "1 2 3 4 5 6 7 8 9"
NineNumbers ==
    <<"1", " ", "2", " ", "3", " ", "4", " ", "5", " ", "6", " ", "7", " ",
      "8", " ", "9">>

\* "step1a.step2b.step3c.step4d.step5e.step6f.step7g"
SevenSteps ==
    <<"s", "t", "e", "p", "1", "a", ".", "s", "t", "e", "p", "2", "b", ".",
      "s", "t", "e", "p", "3", "c", ".", "s", "t", "e", "p", "4", "d", ".",
      "s", "t", "e", "p", "5", "e", ".", "s", "t", "e", "p", "6", "f", ".",
      "s", "t", "e", "p", "7", "g">>

\* "Buoc 1: Nghien cuu" and "Buoc 2: Thiet ke" (with their diacritics),
\* the bullets of the process slide of test_enhanced_generator
StepOne ==
    <<"B", "uw", "ows", "c", " ", "1", ":", " ", "N", "g", "h", "i", "ee",
      "n", " ", "c", "uws", "u">>

StepTwo ==
    <<"B", "uw", "ows", "c", " ", "2", ":", " ", "T", "h", "i", "ees", "t",
      " ", "k", "ees">>

\* the bullets of the slides: the text of the example, "Q1: 100tr",
\* "iOS: 60%", "Web: 35%", "2020: 100", "2021: 1,5k", "Step 1: plan.",
\* "flow", "up 5", "tang truong" (with its diacritics), nine numbers,
\* seven steps and the two steps of the process slide
ChartBullets ==
    {QuarterText,
     <<"Q", "1", ":", " ", "1", "0", "0", "t", "r">>,
     <<"i", "O", "S", ":", " ", "6", "0", "%">>,
     <<"W", "e", "b", ":", " ", "3", "5", "%">>,
     <<"2", "0", "2", "0", ":", " ", "1", "0", "0">>,
     <<"2", "0", "2", "1", ":", " ", "1", ",", "5", "k">>,
     <<"S", "t", "e", "p", " ", "1", ":", " ", "p", "l", "a", "n", ".">>,
     <<"f", "l", "o", "w">>,
     <<"u", "p", " ", "5">>,
     <<"t", "aw", "n", "g", " ", "t", "r", "uw", "owr", "n", "g">>,
     NineNumbers, SevenSteps, StepOne, StepTwo}

\* the lists of at most MaxChartBullets bullets
SlideContentsOf(n) == UNION {[1..m -> ChartBullets] : m \in 0..n}

InitChart ==
    /\ CoreIdle
    /\ quality = [text |-> <<>>, result |-> NoAnalysis]
    /\ font_manager = NoFontManager
    /\ font_out = <<>>
    /\ RateIdle
    /\ signal \in {[NoSignal EXCEPT !.slide_content = slide_content] :
                      slide_content \in SlideContentsOf(MaxChartBullets)}

\* EnhancedPowerPointGenerator._fallback_advanced_layout
FallbackAdvancedLayout ==
    /\ signal.op = "none"
    /\ \E advanced_available \in BOOLEAN, image_path \in ImagePaths :
          signal' = fallback_advanced_layout(signal.slide_content,
                                             advanced_available, image_path)
    /\ UNCHANGED core
    /\ UNCHANGED <<quality, font_manager, font_out>>
    /\ UNCHANGED rate

\* QuickChartMermaidGenerator.extract_chart_data_from_text
ExtractChartDataFromText ==
    /\ signal.op = "none"
    /\ signal' = [signal EXCEPT
                    !.op = "extract_chart_data_from_text",
                    !.text = join(signal.slide_content),
                    !.charts = extract_chart_data_from_text(
                                   join(signal.slide_content))]
    /\ UNCHANGED core
    /\ UNCHANGED <<quality, font_manager, font_out>>
    /\ UNCHANGED rate

NextChart == FallbackAdvancedLayout \/ ExtractChartDataFromText

SpecChart == InitChart /\ [][NextChart]_vars

(***************************************************************************)
(* Properties of the chart paths                                           *)
(***************************************************************************)
\* C19 (as claimed): every chart emitted by either path has labels and
\* values of equal length at least 2, and a text with fewer than 2 numeric
\* data points gets no chart.
C19_ChartsHaveTwoPoints ==
    signal.op # "none" =>
        /\ \A n \in 1..Len(signal.charts) :
              /\ Len(signal.charts[n].labels) = Len(signal.charts[n].values)
              /\ Len(signal.charts[n].labels) >= 2
        /\ Len(find_numbers(lower(join(signal.slide_content)), 1)) < 2
              => signal.charts = <<>>

NumericParts(numbers) ==
    [n \in 1..Len(numbers) |-> digits_value(clean_num(numbers[n]))]

\* C20 (as claimed): for "Q1: 100tr, Q2: 150tr, Q3: 200tr, Q4: 180tr"
\* analyze_content extracts the numeric tokens 100, 150, 200, 180 and no
\* others, finds no chart keyword, and the chart built from the analysis is
\* a bar chart with exactly 4 labels and 4 values.
C20_QuarterExample ==
    (/\ signal.op = "fallback_advanced_layout"
     /\ signal.advanced_available
     /\ signal.text = QuarterText) =>
        /\ NumericParts(signal.analysis.numbers_data) = <<100, 150, 200, 180>>
        /\ signal.analysis.chart_type = "None"
        /\ Len(signal.charts) = 1
        /\ signal.charts[1].type = "bar"
        /\ Len(signal.charts[1].labels) = 4
        /\ Len(signal.charts[1].values) = 4

\* the bullets were analysed by analyze_content
ContentAnalyzed ==
    signal.op = "fallback_advanced_layout" /\ signal.advanced_available

IsPrefix(short, long) ==
    /\ Len(short) <= Len(long)
    /\ \A n \in 1..Len(short) : short[n] = long[n]

\* C21: analyze_content returns at most 8 numeric tokens and at most 6
\* step captures, each list being the first matches of its pattern in
\* document order; a text without a digit (so without number and without
\* step marker) yields has_numbers false, empty lists and no diagram type.
C21_FirstEightAndSix ==
    ContentAnalyzed =>
        LET numbers == find_numbers(lower(signal.text), 1)
            steps == find_steps(lower(signal.text), 1)
        IN  /\ Len(signal.analysis.numbers_data) = Min(Len(numbers), 8)
            /\ IsPrefix(signal.analysis.numbers_data, numbers)
            /\ Len(signal.analysis.process_steps) = Min(Len(steps), 6)
            /\ IsPrefix(signal.analysis.process_steps, steps)
            /\ (\A i \in 1..Len(signal.text) :
                    signal.text[i] \notin DigitClass)
                  => /\ ~signal.analysis.has_numbers
                     /\ signal.analysis.numbers_data = <<>>
                     /\ signal.analysis.process_steps = <<>>
                     /\ signal.analysis.diagram_type = "None"

\* more than 8 numbers and more than 6 steps were found, and kept short
C21_Witness ==
    /\ ContentAnalyzed
    /\ Len(find_numbers(lower(signal.text), 1)) > 8
    /\ Len(find_steps(lower(signal.text), 1)) > 6
    /\ Len(signal.analysis.numbers_data) = 8
    /\ Len(signal.analysis.process_steps) = 6

C27_StepsGetDiagram ==
    (ContentAnalyzed /\ signal.slide_content = <<StepOne, StepTwo>>) =>
        /\ signal.visual = "process_diagram"
        /\ signal.charts = <<>>

(***************************************************************************)
(* EnhancedPowerPointGenerator: the shapes the layouts place on a slide.   *)
(* A chart or diagram image is a record of its kind, the slide number and  *)
(* index of its key, and whether its file exists; lengths are in tenths    *)
(* of an inch.                                                             *)
(***************************************************************************)
MaxMedia == 5

\* os.path.exists of a chart or diagram image
MediaExists(path) == path.exists

Shapes(pictures, content_box, photo) ==
    [pictures |-> pictures, content_box |-> content_box, photo |-> photo]

layout_charts_only(chart_images) ==
    IF Len(chart_images) = 1
    THEN Shapes(SelectSeq(chart_images, MediaExists), FALSE, "none")
    ELSE IF Len(chart_images) = 2
    THEN Shapes(SelectSeq(chart_images, MediaExists), FALSE, "none")
    ELSE Shapes(SelectSeq(take(chart_images, 4), MediaExists), FALSE, "none")

layout_diagrams_only(diagram_images) ==
    Shapes(SelectSeq(diagram_images, MediaExists), FALSE, "none")

layout_charts_with_content(chart_images) ==
    Shapes(SelectSeq(take(chart_images, 1), MediaExists), TRUE, "none")

layout_diagrams_with_content(diagram_images) ==
    Shapes(SelectSeq(take(diagram_images, 1), MediaExists), TRUE, "none")

\* slide_number is len(self.prs.slides), the slide being laid out included
layout_image_with_content(slide_number) ==
    Shapes(<<>>, TRUE, IF slide_number % 2 = 1 THEN "left" ELSE "right")

\* current_y after the charts and after the diagram
y_after_charts(chart_images) ==
    IF chart_images # <<>> THEN 15 + 30 ELSE 15

y_after_diagrams(chart_images, diagram_images) ==
    IF diagram_images # <<>> /\ y_after_charts(chart_images) < 50
    THEN y_after_charts(chart_images) + 20
    ELSE y_after_charts(chart_images)

layout_mixed_media(chart_images, diagram_images, slide_data) ==
    Shapes(SelectSeq(take(chart_images, 2), MediaExists)
           \o (IF diagram_images # <<>> /\ y_after_charts(chart_images) < 50
               THEN SelectSeq(take(diagram_images, 1), MediaExists)
               ELSE <<>>),
           /\ Get(slide_data, "slide_content", <<>>) # <<>>
           /\ y_after_diagrams(chart_images, diagram_images) < 60,
           "none")

\* the shapes of the strategy chosen by _create_advanced_content_slide; the
\* fallback layout is _fallback_advanced_layout
layout_of(layout_strategy, slide_data, slide_number) ==
    IF layout_strategy = "charts_only"
    THEN layout_charts_only(slide_data.quickchart_images)
    ELSE IF layout_strategy = "diagrams_only"
    THEN layout_diagrams_only(slide_data.mermaid_images)
    ELSE IF layout_strategy = "charts_and_content"
    THEN layout_charts_with_content(slide_data.quickchart_images)
    ELSE IF layout_strategy = "diagrams_and_content"
    THEN layout_diagrams_with_content(slide_data.mermaid_images)
    ELSE IF layout_strategy = "image_and_content"
    THEN layout_image_with_content(slide_number)
    ELSE IF layout_strategy = "mixed_media"
    THEN layout_mixed_media(slide_data.quickchart_images,
                            slide_data.mermaid_images, slide_data)
    ELSE Shapes(<<>>, FALSE, "none")

\* a slide of the presentation: the record and photo it was made from, its
\* title, the method that made it, and what was placed on it
Slide(slide_data, image_path, made_by, layout_strategy, shapes, visual) ==
    [slide_data |-> slide_data,
     image_path |-> image_path,
     slide_title |-> Get(slide_data, "slide_title", "Content"),
     made_by |-> made_by,
     layout_strategy |-> layout_strategy,
     pictures |-> shapes.pictures,
     content_box |-> shapes.content_box,
     photo |-> shapes.photo,
     visual |-> visual]

with_media(slide_data) ==
    [key \in DOMAIN slide_data \cup {"quickchart_images", "mermaid_images"} |->
        IF key \in DOMAIN slide_data THEN slide_data[key] ELSE <<>>]

create_advanced_content_slide(slide_data, image_path, slide_number) ==
    LET layout_strategy ==
            determine_layout_strategy(
                Len(Get(slide_data, "quickchart_images", <<>>)) > 0,
                Len(Get(slide_data, "mermaid_images", <<>>)) > 0,
                Get(slide_data, "slide_content", <<>>) # <<>>,
                py_and_exists(image_path))
    IN  Slide(slide_data, image_path, "_create_advanced_content_slide",
              layout_strategy,
              IF layout_strategy = "content_only"
              THEN Shapes(<<>>, FALSE,
                          IF Truthy(py_and_exists(image_path))
                          THEN "smart" ELSE "none")
              ELSE layout_of(layout_strategy, with_media(slide_data),
                             slide_number),
              IF layout_strategy = "content_only"
              THEN fallback_advanced_layout(
                       Get(slide_data, "slide_content", <<>>), TRUE,
                       image_path).visual
              ELSE "none")

(***************************************************************************)
(* Specification of the layouts: one advanced content slide is created     *)
(* from a record with up to MaxMedia chart and diagram images              *)
(***************************************************************************)
MediaImages(kind, slide_number, n, gone) ==
    [i \in 1..n |-> [kind |-> kind, slide_number |-> slide_number,
                     index |-> i - 1, exists |-> i # gone]]

\* no bullets, or the bullet "up 5"
MediaContents == {<<>>, <<<<"u", "p", " ", "5">>>>}

MediaSlideDatas ==
    {[slide_title |-> "t",
      quickchart_images |-> MediaImages("chart", 1, q, gone),
      mermaid_images |-> MediaImages("mermaid", 1, m, gone),
      slide_content |-> c] :
        q \in 0..MaxMedia, m \in 0..MaxMedia, gone \in 0..1,
        c \in MediaContents}

InitMedia == CoreIdle /\ AuxIdle

\* EnhancedPowerPointGenerator._create_advanced_content_slide
CreateMediaSlide ==
    /\ prs = <<>>
    /\ \E slide_data \in MediaSlideDatas, image_path \in ImagePaths :
          prs' = <<create_advanced_content_slide(slide_data, image_path, 1)>>
    /\ UNCHANGED <<data, refiner, memo, calls, last, deck0, batch_args>>
    /\ UNCHANGED aux

NextMedia == CreateMediaSlide

SpecMedia == InitMedia /\ [][NextMedia]_vars

(***************************************************************************)
(* Properties of the layouts                                               *)
(***************************************************************************)
StrategyMaximum(layout_strategy) ==
    IF layout_strategy \in {"charts_only", "diagrams_only"} THEN 4
    ELSE IF layout_strategy = "mixed_media" THEN 3
    ELSE IF layout_strategy \in {"charts_and_content", "diagrams_and_content"}
    THEN 1
    ELSE 0

\* C25 (as claimed): on every slide the number of chart and diagram images
\* placed is at most the maximum of its strategy (4 for charts_only and
\* diagrams_only, 2 charts and 1 diagram for mixed_media, 1 with content).
C25_MediaWithinMaximum ==
    \A k \in 1..Len(prs) :
        Len(prs[k].pictures) <= StrategyMaximum(prs[k].layout_strategy)

\* C28 (as claimed): a mixed_media slide with bullets has a content text
\* box.
C28_MixedMediaHasContentBox ==
    \A k \in 1..Len(prs) :
        (/\ prs[k].layout_strategy = "mixed_media"
         /\ Get(prs[k].slide_data, "slide_content", <<>>) # <<>>)
        => prs[k].content_box

(***************************************************************************)
(* EnhancedPowerPointGenerator.save_presentation: the slides are created   *)
(* from the records of the deck, in order. image_paths maps slide numbers  *)
(* to photos; quickchart_paths is the sequence of the chart and diagram    *)
(* images in the order of their keys <kind>_<slide_number>_<index>.        *)
(***************************************************************************)
NoShapes == Shapes(<<>>, FALSE, "none")

\* the values of the keys that start with <kind>_<slide_number>_
images_of(quickchart_paths, kind, slide_number) ==
    SelectSeq(quickchart_paths,
              LAMBDA path : path.kind = kind /\ path.slide_number = slide_number)

\* slide_data after the images found for it were stored in it
with_images(slide_data, chart_images, mermaid_images) ==
    LET with_charts == IF chart_images # <<>>
                       THEN Put(slide_data, "quickchart_images", chart_images)
                       ELSE slide_data
    IN  IF mermaid_images # <<>>
        THEN Put(with_charts, "mermaid_images", mermaid_images)
        ELSE with_charts

\* the slides after _create_basic_content_slide; with a photo, the slide
\* just added is taken out of the slide list and a blank one is added
create_basic_content_slide_keeps_both(slides, slide_data, image_path) ==
    IF Truthy(py_and_exists(image_path))
    THEN slides
         \o <<Slide(slide_data, image_path, "_create_basic_content_slide",
                    "none", NoShapes, "none"),
              Slide(slide_data, image_path, "_create_basic_content_slide",
                    "image_and_content",
                    layout_image_with_content(Len(slides) + 2), "none")>>
    ELSE Append(slides,
                Slide(slide_data, image_path, "_create_basic_content_slide",
                      "none", NoShapes, "none"))

create_basic_content_slide(slides, slide_data, image_path) ==
    IF Truthy(py_and_exists(image_path))
    THEN Append(SubSeq(Append(slides,
                              Slide(slide_data, image_path,
                                    "_create_basic_content_slide", "none",
                                    NoShapes, "none")),
                       1, Len(slides)),
                Slide(slide_data, image_path, "_create_basic_content_slide",
                      "image_and_content",
                      layout_image_with_content(Len(slides) + 1), "none"))
    ELSE Append(slides,
                Slide(slide_data, image_path, "_create_basic_content_slide",
                      "none", NoShapes, "none"))

\* the slides after create_enhanced_slide; when the creating method raises
\* (after its add_slide, its first statement), the exception is caught and
\* the slide stays as it is
create_enhanced_slide(slides, slide_data, image_path, advanced_available, raises) ==
    IF raises
    THEN Append(slides, Slide(slide_data, image_path, "create_enhanced_slide",
                              "none", NoShapes, "exception"))
    ELSE IF Get(slide_data, "slide_type", "content") = "title"
    THEN Append(slides, Slide(slide_data, image_path, "_create_title_slide",
                              "none", NoShapes, "none"))
    ELSE IF Get(slide_data, "slide_type", "content") = "conclusion"
    THEN Append(slides, Slide(slide_data, image_path,
                              "_create_conclusion_slide", "none", NoShapes,
                              "none"))
    ELSE IF advanced_available
    THEN Append(slides, create_advanced_content_slide(slide_data, image_path,
                                                      Len(slides) + 1))
    ELSE create_basic_content_slide(slides, slide_data, image_path)

\* the loop of save_presentation from record i on: the slides of the
\* presentation and the deck with the images stored in its records
RECURSIVE save_slides(_, _, _, _, _, _, _)
save_slides(slides, deck, i, image_paths, quickchart_paths, advanced_available, raising) ==
    IF i > Len(deck) THEN [slides |-> slides, deck |-> deck]
    ELSE LET slide_number == Get(deck[i], "slide_number", i)
             slide_data ==
                 with_images(deck[i],
                             images_of(quickchart_paths, "chart", slide_number),
                             images_of(quickchart_paths, "mermaid", slide_number))
         IN  save_slides(
                 create_enhanced_slide(slides, slide_data,
                                       Get(image_paths, slide_number, "None"),
                                       advanced_available, i \in raising),
                 [deck EXCEPT ![i] = slide_data],
                 i + 1, image_paths, quickchart_paths, advanced_available,
                 raising)

(***************************************************************************)
(* Specification of save_presentation: a deck is saved on a fresh          *)
(* generator, and saved again with the same arguments                      *)
(***************************************************************************)
SlideTitles == <<"one", "two", "three", "four">>

SaveSlides ==
    {[slide_type |-> t, slide_content |-> c] :
        t \in {"content", "title"}, c \in MediaContents}
    \cup {[slide_type |-> t, slide_content |-> c, slide_number |-> 1] :
            t \in {"content", "title"}, c \in MediaContents}

\* the decks of n records; the record at position i has the i-th title
SaveDecks(n) ==
    UNION {{[i \in 1..m |-> Put(f[i], "slide_title", SlideTitles[i])] :
              f \in [1..m -> SaveSlides]} : m \in 1..n}

PhotoPaths == {[n \in shown |-> "photo.png"] : shown \in {{}, {1}, {1, 2}}}

QuickchartPaths ==
    {<<>>, MediaImages("chart", 1, 1, 0),
     MediaImages("chart", 1, 1, 0) \o MediaImages("mermaid", 1, 1, 0)}

SaveCall(slides_data, image_paths, quickchart_paths, raising) ==
    [op |-> "save_presentation", slides_data |-> slides_data,
     image_paths |-> image_paths, quickchart_paths |-> quickchart_paths,
     raising |-> raising]

InitSave ==
    /\ CoreIdle
    /\ quality = [text |-> <<>>, result |-> NoAnalysis]
    /\ font_manager = NoFontManager
    /\ font_out = <<>>
    /\ RateIdle
    /\ signal \in {[NoSignal EXCEPT !.advanced_available = available] :
                      available \in BOOLEAN}

Saved(saved, slides_data, image_paths, quickchart_paths, raising) ==
    /\ prs' = saved.slides
    /\ data' = [slides_data EXCEPT !.slides = saved.deck]
    /\ last' = SaveCall(slides_data, image_paths, quickchart_paths, raising)
    /\ calls' = calls + 1
    /\ UNCHANGED <<refiner, memo, deck0, batch_args>>
    /\ UNCHANGED aux

\* EnhancedPowerPointGenerator.save_presentation on a fresh generator
SavePresentation ==
    /\ calls = 0
    /\ \E slides \in SaveDecks(MaxPrsSlides), image_paths \in PhotoPaths,
          quickchart_paths \in QuickchartPaths :
          \E raising \in {{}} \cup {{i} : i \in 1..Len(slides)} :
             Saved(save_slides(prs, slides, 1, image_paths, quickchart_paths,
                               signal.advanced_available, raising),
                   [presentation_title |-> "p", slides |-> slides],
                   image_paths, quickchart_paths, raising)

\* EnhancedPowerPointGenerator.save_presentation once more, on the same
\* generator and with the arguments of the call before
SavePresentationAgain ==
    /\ calls > 0
    /\ calls < MaxCalls
    /\ Saved(save_slides(prs, data.slides, 1, last.image_paths,
                         last.quickchart_paths, signal.advanced_available,
                         last.raising),
             data, last.image_paths, last.quickchart_paths, last.raising)

NextSave == SavePresentation \/ SavePresentationAgain

SpecSave == InitSave /\ [][NextSave]_vars

(***************************************************************************)
(* Properties of save_presentation                                         *)
(***************************************************************************)
\* the position in its deck of the record a slide was made from
OutlinePosition(slide) ==
    CHOOSE i \in 1..Len(SlideTitles) : SlideTitles[i] = slide.slide_title

C24_PhotoSideByPosition ==
    \A k \in 1..Len(prs) :
        prs[k].photo \in {"left", "right"} =>
            prs[k].photo =
                IF OutlinePosition(prs[k]) % 2 = 1 THEN "left" ELSE "right"

(***************************************************************************)
(* WebAIPowerPointApp.process_text_to_presentation: the deck from the      *)
(* content processor is enhanced, the photos and the chart and diagram     *)
(* images are fetched, and the presentation is saved.  The "content" of a  *)
(* slide is a record of its Python type and value.                         *)
(***************************************************************************)
Str(value) == [type |-> "str", value |-> value]

List(value) == [type |-> "list", value |-> value]

\* the keywords of the diagram detection
diagram_keywords ==
    {<<"b", "uw", "ows", "c">>, <<"s", "t", "e", "p">>,
     <<"g", "i", "a", "i", " ", "dd", "o", "aj", "n">>,
     <<"q", "u", "y", " ", "t", "r", "if", "n", "h">>}

\* str.isdigit
isdigit(text) ==
    text # <<>> /\ \A i \in 1..Len(text) : text[i] \in DigitClass

\* any(char.isdigit() for char in content): over the characters of a str,
\* over the elements of a list
any_isdigit(content) ==
    IF content.type = "str"
    THEN \E i \in 1..Len(content.value) : content.value[i] \in DigitClass
    ELSE \E i \in 1..Len(content.value) : isdigit(content.value[i])

\* the URLs process_slide_content found for record i
urls_of(kind, i, n) == [j \in 1..n |-> [kind |-> kind, origin |-> i, index |-> j - 1]]

\* the QuickChart step of the loop; a content that is no str fails inside
\* process_slide_content, which returns its empty result
with_quickchart(slide, i, found, use_quickchart) ==
    IF use_quickchart /\ Has(slide, "content") /\ slide.content.type = "str"
    THEN LET with_charts ==
                 IF found.charts > 0
                 THEN Put(Put(slide, "quickchart_urls",
                              urls_of("chart", i, found.charts)),
                          "has_quickchart", TRUE)
                 ELSE slide
         IN  IF found.diagrams > 0
             THEN Put(Put(with_charts, "mermaid_urls",
                          urls_of("mermaid", i, found.diagrams)),
                      "has_mermaid", TRUE)
             ELSE with_charts
    ELSE slide

detect_chart(slide, use_charts) ==
    IF use_charts /\ Has(slide, "content") /\ any_isdigit(slide.content)
    THEN Put(Put(slide, "has_chart", TRUE), "chart_type", "auto")
    ELSE slide

\* slide.get("content", "").lower() raises for a list
detect_diagram_raises(slide, use_diagrams) ==
    use_diagrams /\ Has(slide, "content") /\ slide.content.type # "str"

detect_diagram(slide, use_diagrams) ==
    IF /\ use_diagrams /\ Has(slide, "content")
       /\ \E keyword \in diagram_keywords :
             contains(lower(slide.content.value), keyword)
    THEN Put(Put(slide, "has_diagram", TRUE), "diagram_type", "process_flow")
    ELSE slide

animate(slide, use_animations) ==
    IF use_animations THEN Put(slide, "animations", TRUE) ELSE slide

\* the loop of _enhance_slides_with_advanced_features from record i on; an
\* exception of the detection leaves the loop and the deck is returned as
\* it is
RECURSIVE enhance_slides_with_advanced_features(_, _, _, _)
enhance_slides_with_advanced_features(slides, i, found, use) ==
    IF i > Len(slides) THEN slides
    ELSE IF detect_diagram_raises(slides[i], use.diagrams)
    THEN [slides EXCEPT ![i] =
             detect_chart(with_quickchart(slides[i], i, found[i],
                                          use.quickchart), use.charts)]
    ELSE enhance_slides_with_advanced_features(
             [slides EXCEPT ![i] =
                 animate(detect_diagram(
                             detect_chart(with_quickchart(slides[i], i,
                                                          found[i],
                                                          use.quickchart),
                                          use.charts),
                             use.diagrams),
                         use.animations)],
             i + 1, found, use)

\* image_paths[slide_number] = placeholder_path, for every record
placeholder_images(slides) ==
    [n \in {Get(slides[i], "slide_number", 1) : i \in 1..Len(slides)} |->
        "photo.png"]

\* the image downloaded from a URL of a record with this slide number
downloaded(url, slide_number) ==
    [kind |-> url.kind, slide_number |-> slide_number, index |-> url.index,
     exists |-> TRUE, origin |-> url.origin]

\* quickchart_paths[key] = downloaded_path
RECURSIVE put_paths(_, _)
put_paths(quickchart_paths, paths) ==
    IF paths = <<>> THEN quickchart_paths
    ELSE put_paths(
             IF \E j \in 1..Len(quickchart_paths) :
                   /\ quickchart_paths[j].kind = paths[1].kind
                   /\ quickchart_paths[j].slide_number = paths[1].slide_number
                   /\ quickchart_paths[j].index = paths[1].index
             THEN [j \in 1..Len(quickchart_paths) |->
                      IF /\ quickchart_paths[j].kind = paths[1].kind
                         /\ quickchart_paths[j].slide_number
                               = paths[1].slide_number
                         /\ quickchart_paths[j].index = paths[1].index
                      THEN paths[1] ELSE quickchart_paths[j]]
             ELSE Append(quickchart_paths, paths[1]),
             Tail(paths))

\* the download loop of process_text_to_presentation from record i on
RECURSIVE download_images(_, _, _)
download_images(quickchart_paths, slides, i) ==
    IF i > Len(slides) THEN quickchart_paths
    ELSE download_images(
             put_paths(quickchart_paths,
                       [j \in 1..Len(Get(slides[i], "quickchart_urls", <<>>)) |->
                           downloaded(slides[i].quickchart_urls[j],
                                      Get(slides[i], "slide_number", 1))]
                       \o [j \in 1..Len(Get(slides[i], "mermaid_urls", <<>>)) |->
                              downloaded(slides[i].mermaid_urls[j],
                                         Get(slides[i], "slide_number", 1))]),
             slides, i + 1)

(***************************************************************************)
(* Specification of the pipeline: one deck accepted by                     *)
(* validate_slides_structure is turned into a presentation                 *)
(***************************************************************************)
\* "Step 1: plan."
StepText ==
    <<"S", "t", "e", "p", " ", "1", ":", " ", "p", "l", "a", "n", ".">>

PipelineContents == {Str(StepText), List(<<StepText>>)}

\* records with the required fields, with and without slide_number and
\* "content"
PipelineSlides ==
    LET required == [image_keywords |-> "k",
                     slide_content |-> <<<<"u", "p", " ", "5">>>>]
        numbered == {required}
                    \cup {Put(required, "slide_number", n) : n \in 1..2}
    IN  numbered \cup {Put(slide, "content", content) :
                          slide \in numbered, content \in PipelineContents}

PipelineDecks(n) ==
    UNION {{[i \in 1..m |-> Put(f[i], "slide_title", SlideTitles[i])] :
              f \in [1..m -> PipelineSlides]} : m \in 1..n}

\* the numbers of chart and diagram URLs process_slide_content returns
Found == {[charts |-> 0, diagrams |-> 0], [charts |-> 1, diagrams |-> 1]}

Uses ==
    [charts : BOOLEAN, diagrams : BOOLEAN, animations : BOOLEAN,
     quickchart : BOOLEAN]

InitPipeline == CoreIdle /\ AuxIdle

Processed(enhanced, image_paths, quickchart_paths, slides, found, use, raising) ==
    LET saved == save_slides(<<>>, enhanced, 1, image_paths, quickchart_paths,
                             TRUE, raising)
    IN  /\ prs' = saved.slides
        /\ data' = [presentation_title |-> "p", slides |-> saved.deck]
        /\ last' = [op |-> "process_text_to_presentation",
                    slides_data |-> [presentation_title |-> "p",
                                     slides |-> slides],
                    found |-> found, use |-> use,
                    image_paths |-> image_paths,
                    quickchart_paths |-> quickchart_paths,
                    raising |-> raising]
        /\ calls' = calls + 1
        /\ UNCHANGED <<refiner, memo, deck0, batch_args>>
        /\ UNCHANGED aux

Enhanced(enhanced, slides, found, use, raising) ==
    Processed(enhanced, placeholder_images(enhanced),
              IF use.quickchart THEN download_images(<<>>, enhanced, 1)
              ELSE <<>>,
              slides, found, use, raising)

\* WebAIPowerPointApp.process_text_to_presentation, with the enhanced
\* generator and QuickChart available, without photo search and BERT
ProcessTextToPresentation ==
    /\ calls = 0
    /\ \E slides \in PipelineDecks(MaxPrsSlides), use \in Uses :
          \E found \in [1..Len(slides) -> Found],
             raising \in {{}, {1}} :
             Enhanced(IF use.charts \/ use.diagrams \/ use.animations
                         \/ use.quickchart
                      THEN enhance_slides_with_advanced_features(
                               slides, 1, found, use)
                      ELSE slides,
                      slides, found, use, raising)

NextPipeline == ProcessTextToPresentation

SpecPipeline == InitPipeline /\ [][NextPipeline]_vars

(***************************************************************************)
(* Properties of the pipeline                                              *)
(***************************************************************************)
Piped == last.op = "process_text_to_presentation"

\* C22 (as claimed): when the creation of a slide raises, or the detection
\* raises for a record, every later record is still processed (it gets its
\* animations flag when animations are asked for) and the presentation has
\* a slide for every record.
C22_LaterSlidesProcessed ==
    Piped =>
        /\ Len(prs) = Len(data.slides)
        /\ \A i, j \in 1..Len(data.slides) :
              (/\ i < j
               /\ last.use.animations
               /\ detect_diagram_raises(last.slides_data.slides[i],
                                        last.use.diagrams))
              => Has(data.slides[j], "animations")

\* the images stored in the record of a slide
AttachedTo(slide) ==
    {slide.slide_data.quickchart_images[j] :
        j \in 1..Len(Get(slide.slide_data, "quickchart_images", <<>>))}
    \cup {slide.slide_data.mermaid_images[j] :
            j \in 1..Len(Get(slide.slide_data, "mermaid_images", <<>>))}

\* C29 (as claimed): every image downloaded for a record is attached to the
\* slide of that record and to no other slide, also when records lack a
\* slide_number or repeat one.
C29_ImagesOnOwnSlide ==
    Piped =>
        /\ \A k \in 1..Len(prs) : \A path \in AttachedTo(prs[k]) :
              path.origin = k
        /\ \A i \in 1..Len(data.slides) :
              \A j \in 1..Len(Get(data.slides[i], "quickchart_urls", <<>>)) :
                 last.use.quickchart =>
                    \E path \in AttachedTo(prs[i]) :
                       /\ path.kind = "chart"
                       /\ path.origin = i
                       /\ path.index = j - 1

(***************************************************************************)
(* RateLimiter: requests maps a client to the times of its admitted calls  *)
(* that are still inside the window                                        *)
(***************************************************************************)
MaxClock == 5
MaxRateCalls == 5

\* the times of the client that are kept: now - req_time < self.time_window
kept_requests(self, client_id, time) ==
    SelectSeq(Get(self.requests, client_id, <<>>),
              LAMBDA req_time : time - req_time < self.time_window)

\* the limiter after is_allowed and the value returned
is_allowed_records_every_call(self, client_id, time) ==
    [self |-> [self EXCEPT !.requests =
                  Put(self.requests, client_id,
                      Append(kept_requests(self, client_id, time), time))],
     result |-> Len(kept_requests(self, client_id, time)) < self.max_requests]

is_allowed(self, client_id, time) ==
    IF Len(kept_requests(self, client_id, time)) >= self.max_requests
    THEN [self |-> [self EXCEPT !.requests =
                       Put(self.requests, client_id,
                           kept_requests(self, client_id, time))],
          result |-> FALSE]
    ELSE [self |-> [self EXCEPT !.requests =
                       Put(self.requests, client_id,
                           Append(kept_requests(self, client_id, time),
                                  time))],
          result |-> TRUE]

(***************************************************************************)
(* Specification of the rate limiter: clients call is_allowed while the    *)
(* clock does not go back                                                  *)
(***************************************************************************)
ClientIds == {"a", "b"}

InitRate ==
    /\ CoreIdle
    /\ quality = [text |-> <<>>, result |-> NoAnalysis]
    /\ font_manager = NoFontManager
    /\ font_out = <<>>
    /\ signal = NoSignal
    /\ limiter \in {[max_requests |-> max_requests,
                     time_window |-> time_window, requests |-> <<>>] :
                       max_requests \in 1..2, time_window \in 2..3}
    /\ now = 0
    /\ rate_log = <<>>

Allowed(client_id, time, answer) ==
    /\ limiter' = answer.self
    /\ now' = time
    /\ rate_log' = Append(rate_log, [client_id |-> client_id, now |-> time,
                                     result |-> answer.result])

\* RateLimiter.is_allowed, at a time.time() not before the last one
IsAllowed ==
    /\ Len(rate_log) < MaxRateCalls
    /\ \E client_id \in ClientIds, time \in now..MaxClock :
          Allowed(client_id, time, is_allowed(limiter, client_id, time))
    /\ UNCHANGED core
    /\ UNCHANGED <<quality, font_manager, font_out, signal>>

NextRate == IsAllowed

SpecRate == InitRate /\ [][NextRate]_vars

(***************************************************************************)
(* Properties of the rate limiter                                          *)
(***************************************************************************)
\* the calls before call k that the client of call k made, that were
\* admitted, and that are less than time_window before call k
AdmittedInWindow(k) ==
    {j \in 1..(k - 1) :
        /\ rate_log[j].client_id = rate_log[k].client_id
        /\ rate_log[j].result
        /\ rate_log[k].now - rate_log[j].now < limiter.time_window}

\* C30: for each client, the calls answered True in any interval of
\* time_window seconds (from a time t up to, not including, t + time_window)
\* are at most max_requests; a call is answered by the client's own admitted
\* calls of the last time_window seconds alone, so calls answered False and
\* calls of other clients change no later answer; requests holds the times
\* of admitted calls only.
C30_AtMostMaxPerWindow ==
    /\ \A k \in 1..Len(rate_log) :
          rate_log[k].result =>
             Cardinality({j \in k..Len(rate_log) :
                             /\ rate_log[j].client_id = rate_log[k].client_id
                             /\ rate_log[j].result
                             /\ rate_log[j].now - rate_log[k].now
                                   < limiter.time_window})
                <= limiter.max_requests
    /\ \A k \in 1..Len(rate_log) :
          rate_log[k].result
             = (Cardinality(AdmittedInWindow(k)) < limiter.max_requests)
    /\ \A client_id \in DOMAIN limiter.requests :
          \A n \in 1..Len(limiter.requests[client_id]) :
             \E k \in 1..Len(rate_log) :
                /\ rate_log[k].client_id = client_id
                /\ rate_log[k].result
                /\ rate_log[k].now = limiter.requests[client_id][n]

\* a client was refused while the other was admitted at the same time, and
\* was admitted again once its window had passed
C30_Witness ==
    \E i, j, k \in 1..Len(rate_log) :
        /\ i < j /\ j < k
        /\ rate_log[i].client_id = "a" /\ ~rate_log[i].result
        /\ rate_log[j].client_id = "b" /\ rate_log[j].result
        /\ rate_log[j].now = rate_log[i].now
        /\ rate_log[k].client_id = "a" /\ rate_log[k].result
        /\ limiter.max_requests = 2

====
